---- MODULE Spec2Model ----
(***************************************************************************)
(* A model of the IRI packet-processing engine (src/iri): the field codec  *)
(* (field.py), HeaderInstance (header.py), ParsedPacket (parsed_packet.py),*)
(* Table (table.py) and the SimpleQueueManager traffic manager             *)
(* (simple_queue.py).                                                      *)
(*                                                                         *)
(* Representation.                                                         *)
(*  - A Python int is a sequence of bits, least significant first, with no *)
(*    high zero bit (0 is <<>>): Python ints are unbounded and the codec   *)
(*    shifts 32-bit values left, which does not fit a 32-bit machine int.  *)
(*  - A byte of a bytearray is a number in 0..255; a bytearray is a        *)
(*    sequence of bytes; Python index i is TLA+ index i+1.                 *)
(*  - A call that raises is a result record with ok = FALSE.               *)
(***************************************************************************)
EXTENDS Integers, Sequences, FiniteSets, TLC

VARIABLES
    \* field.py __main__ round-trip test (lines 262-295)
    width, offset, value, byte_list, field_value, codec_pc,
    \* parsed_packet.py
    id_next,     \* ParsedPacket.id_next, the class attribute
    packets,     \* the ParsedPacket objects, in order of creation
    maps,        \* the ListDict objects that header_map attributes refer to
    last,        \* the latest ParsedPacket call and what it returned
    before,      \* id_next, packets, maps and counters as the latest call
                 \* found them
    calls,       \* the number of calls made so far
    \* table.py: one Table
    entries, default_entry, byte_count, packet_count,
    table_cond_var, \* the thread inside "with self.cond_var" of the table, or 0
    \* simple_queue.py: one SimpleQueueManager, its callers and its thread
    queues,      \* self.queues
    cond_var,    \* the thread inside "with self.cond_var", or Free
    event,       \* self.event is set
    running,     \* self.running
    producer,    \* per calling thread: where it is inside process()
    worker,      \* the thread of run(): where it is, packet and last_port
    enqueued,    \* every append of process(), in order
    handed,      \* every call of next_processor.process(), in order
    multicast_map, \* self.multicast_map
    offered,     \* every packet process() was called with, in order
    mapped,      \* the latest map_egress_spec call and what it returned
    \* threads that construct and replicate packets or call a table
    thread       \* per thread: where it is inside the method it called

codec_vars == <<width, offset, value, byte_list, field_value, codec_pc>>
packet_vars == <<id_next, packets, maps, last, before, calls>>
table_vars == <<entries, default_entry, byte_count, packet_count,
               table_cond_var>>
tm_aux == <<multicast_map, offered, mapped>>
tm_vars == <<queues, cond_var, event, running, producer, worker, enqueued,
             handed, multicast_map, offered, mapped>>
vars == <<width, offset, value, byte_list, field_value, codec_pc,
          id_next, packets, maps, last, before, calls,
          entries, default_entry, byte_count, packet_count, table_cond_var,
          queues, cond_var, event, running, producer, worker, enqueued,
          handed, multicast_map, offered, mapped, thread>>

-----------------------------------------------------------------------------
(* Python ints as bit sequences *)

RECURSIVE Pow2(_)
Pow2(n) == IF n = 0 THEN 1 ELSE 2 * Pow2(n - 1)

\* k zero bits, or the k zero bytes of bytearray(k)
RECURSIVE Zeros(_)
Zeros(k) == IF k <= 0 THEN <<>> ELSE <<0>> \o Zeros(k - 1)

RECURSIVE Trim(_)
Trim(v) == IF v = <<>> THEN <<>>
           ELSE IF v[Len(v)] = 0 THEN Trim(SubSeq(v, 1, Len(v) - 1))
           ELSE v

\* the Python int of a small natural number
RECURSIVE IntOf(_)
IntOf(n) == IF n = 0 THEN <<>> ELSE <<n % 2>> \o IntOf(n \div 2)

\* the natural number of a Python int known to be small
RECURSIVE NatOf(_)
NatOf(v) == IF v = <<>> THEN 0 ELSE v[1] + 2 * NatOf(Tail(v))

\* v << k
Shl(v, k) == IF v = <<>> THEN <<>> ELSE Zeros(k) \o v

\* v >> k
Shr(v, k) == IF k >= Len(v) THEN <<>> ELSE SubSeq(v, k + 1, Len(v))

\* v & 0xff, as a byte
LowByte(v) == NatOf(SubSeq(v, 1, IF Len(v) < 8 THEN Len(v) ELSE 8))

\* a + b
RECURSIVE AddCarry(_, _, _)
AddCarry(a, b, c) ==
    IF a = <<>> /\ b = <<>> THEN (IF c = 0 THEN <<>> ELSE <<1>>)
    ELSE LET x == IF a = <<>> THEN 0 ELSE a[1]
             y == IF b = <<>> THEN 0 ELSE b[1]
             s == x + y + c
         IN  <<s % 2>> \o AddCarry(IF a = <<>> THEN <<>> ELSE Tail(a),
                                   IF b = <<>> THEN <<>> ELSE Tail(b),
                                   s \div 2)
Add(a, b) == Trim(AddCarry(a, b, 0))

\* v & ((1 << w) - 1)
MaskTo(v, w) == Trim(SubSeq(v, 1, IF Len(v) < w THEN Len(v) ELSE w))

(* bit operations on small naturals (bytes and byte masks) *)
RECURSIVE BitAnd(_, _)
BitAnd(a, b) == IF a = 0 \/ b = 0 THEN 0
                ELSE (a % 2) * (b % 2) + 2 * BitAnd(a \div 2, b \div 2)

RECURSIVE BitOr(_, _)
BitOr(a, b) == IF a = 0 THEN b ELSE IF b = 0 THEN a
               ELSE (IF a % 2 = 1 \/ b % 2 = 1 THEN 1 ELSE 0)
                    + 2 * BitOr(a \div 2, b \div 2)

\* a & ~m for a >= 0, m >= 0
RECURSIVE AndNot(_, _)
AndNot(a, m) == IF a = 0 THEN 0
                ELSE (a % 2) * (1 - (m % 2)) + 2 * AndNot(a \div 2, m \div 2)

\* A bytearray an extract reads from: its bytes, or zeros > 0 for a bytearray
\* of that many zero bytes (bytearray(n)), which the model does not spell out.
Bytes(bs) == [zeros |-> 0, bytes |-> bs]
ZeroBytes(n) == [zeros |-> n, bytes |-> <<>>]
BufLen(buf) == IF buf.zeros > 0 THEN buf.zeros ELSE Len(buf.bytes)

\* Python buf[lo:hi] for 0 <= lo, as a sequence of bytes
Slice(buf, lo, hi) ==
    LET h == IF hi > BufLen(buf) THEN BufLen(buf) ELSE hi
    IN  IF lo >= h THEN <<>>
        ELSE IF buf.zeros > 0 THEN Zeros(h - lo)
        ELSE SubSeq(buf.bytes, lo + 1, h)

\* struct.unpack("!B" / "!H" / "!L" / "!Q"): big-endian bytes to an int
RECURSIVE Unpack(_)
Unpack(bs) == IF bs = <<>> THEN <<>>
              ELSE Add(Shl(Unpack(SubSeq(bs, 1, Len(bs) - 1)), 8),
                       IntOf(bs[Len(bs)]))

-----------------------------------------------------------------------------
(* field.py: field_instance *)

BYTE_MASK == <<0, 1, 3, 7, 15, 31, 63, 127, 255>>

Raised == [ok |-> FALSE, value |-> <<>>]
Returned(v) == [ok |-> TRUE, value |-> v]

\* the while loop of extract (lines 116-134); bytes is the local bytearray
RECURSIVE ExtractLoop(_, _, _, _)
ExtractLoop(bytes, w, bit_offset, val) ==
    IF w <= 0 THEN Returned(val)
    ELSE IF w + bit_offset <= 8 THEN
        IF bytes = <<>> THEN Raised      \* bytes[0]: IndexError
        ELSE LET high_bit == 7 - bit_offset
                 low_bit == high_bit - w + 1
                 val_from_byte == BitAnd(bytes[1] \div Pow2(low_bit),
                                         BYTE_MASK[w + 1])
                 shift == IF w < 8 THEN w ELSE 8
             IN  Returned(Add(Shl(val, shift), IntOf(val_from_byte)))
    ELSE IF bytes = <<>> THEN Raised     \* bytes.pop(0): IndexError
    ELSE IF bit_offset = 0 THEN
        ExtractLoop(Tail(bytes), w - 8, 0,
                    Add(Shl(val, 8), IntOf(bytes[1])))
    ELSE LET high_bit == 7 - bit_offset
             val_from_byte == BitAnd(bytes[1], BYTE_MASK[high_bit + 2])
             w2 == w - (high_bit + 1)
             shift == IF w2 < 8 /\ w2 # 0 THEN w2 ELSE 8
         IN  ExtractLoop(Tail(bytes), w2, 0,
                         Add(Shl(val, shift), IntOf(val_from_byte)))

\* field_instance.extract (lines 67-136) for a field of w bits. The model's
\* fields are at most 64 bits wide, so the bytearray branch (width > 64) is
\* not taken.
extract(w, buf, header_offset, bit_offset0) ==
    LET byte_offset == header_offset + (bit_offset0 \div 8)
        bit_offset == bit_offset0 % 8
        base == byte_offset
        fast == bit_offset = 0 /\ w \in {8, 16, 32, 64}
        bytes_needed == (w + bit_offset + 7) \div 8
        low == header_offset + byte_offset
        high == low + bytes_needed
    IN  IF w < 0 THEN Raised
        ELSE IF fast THEN
            IF Len(Slice(buf, base, base + w \div 8)) # w \div 8
            THEN Raised                  \* struct.error
            ELSE Returned(Unpack(Slice(buf, base, base + w \div 8)))
        ELSE IF w >= 64 THEN Raised      \* air_assert(width < 64)
        ELSE ExtractLoop(Slice(buf, low, high), w, bit_offset, <<>>)

\* byte_list[idx] = b; ok is FALSE on an IndexError
SetByte(r, idx, b) ==
    IF ~r.ok \/ idx + 1 > Len(r.bytes) THEN [ok |-> FALSE, bytes |-> r.bytes]
    ELSE [ok |-> TRUE, bytes |-> [r.bytes EXCEPT ![idx + 1] = b]]

\* lines 169-171: for idx in reversed(range(width / 8))
RECURSIVE UpdateAligned(_, _, _, _)
UpdateAligned(r, byte_offset, idx, val) ==
    IF idx < 0 \/ ~r.ok THEN r
    ELSE UpdateAligned(SetByte(r, byte_offset + idx, LowByte(val)),
                       byte_offset, idx - 1, Shr(val, 8))

\* lines 183-205: for idx in range(bytes_needed)
RECURSIVE UpdateLoop(_, _, _, _, _, _, _)
UpdateLoop(r, byte_offset, idx, bytes_needed, w, bit_offset, val) ==
    IF idx >= bytes_needed \/ ~r.ok THEN r
    ELSE IF byte_offset + idx + 1 > Len(r.bytes)
         THEN [ok |-> FALSE, bytes |-> r.bytes]
    ELSE LET value_byte == LowByte(Shr(val, 8 * (bytes_needed - 1 - idx)))
             cur == r.bytes[byte_offset + idx + 1]
         IN  IF w + bit_offset <= 8 THEN
                 LET shift == 8 - (bit_offset + w)
                     mask == BYTE_MASK[w + 1] * Pow2(shift)
                 IN  UpdateLoop(SetByte(r, byte_offset + idx,
                                        BitOr(AndNot(cur, mask), value_byte)),
                                byte_offset, idx + 1, bytes_needed,
                                0, bit_offset, val)
             ELSE IF bit_offset = 0 THEN
                 UpdateLoop(SetByte(r, byte_offset + idx, value_byte),
                            byte_offset, idx + 1, bytes_needed,
                            w - 8, bit_offset, val)
             ELSE
                 LET mask == BYTE_MASK[8 - bit_offset + 1]
                 IN  UpdateLoop(SetByte(r, byte_offset + idx,
                                        BitOr(AndNot(cur, mask), value_byte)),
                                byte_offset, idx + 1, bytes_needed,
                                w - (8 - bit_offset), 0, val)

\* update_header_bytes without "if shift == 8: shift = 0" (line 179)
update_header_bytes_NoShiftFix(w, val, bytes0, bit_offset0) ==
    LET byte_offset == bit_offset0 \div 8
        bit_offset == bit_offset0 % 8
        r0 == [ok |-> TRUE, bytes |-> bytes0]
        bytes_needed == (w + bit_offset + 7) \div 8
        shift == 8 - ((bit_offset + w) % 8)
    IN  IF w < 0 THEN [ok |-> FALSE, bytes |-> bytes0]
        ELSE IF w = 0 THEN r0
        ELSE IF bit_offset = 0 /\ w % 8 = 0
             THEN UpdateAligned(r0, byte_offset, (w \div 8) - 1, val)
        ELSE UpdateLoop(r0, byte_offset, 0, bytes_needed, w, bit_offset,
                        Shl(val, shift))

\* field_instance.update_header_bytes (lines 138-205) for an int value
update_header_bytes(w, val, bytes0, bit_offset0) ==
    LET byte_offset == bit_offset0 \div 8
        bit_offset == bit_offset0 % 8
        r0 == [ok |-> TRUE, bytes |-> bytes0]
        bytes_needed == (w + bit_offset + 7) \div 8
        shift0 == 8 - ((bit_offset + w) % 8)
        shift == IF shift0 = 8 THEN 0 ELSE shift0
    IN  IF w < 0 THEN [ok |-> FALSE, bytes |-> bytes0]
        ELSE IF w = 0 THEN r0
        ELSE IF bit_offset = 0 /\ w % 8 = 0
             THEN UpdateAligned(r0, byte_offset, (w \div 8) - 1, val)
        ELSE UpdateLoop(r0, byte_offset, 0, bytes_needed, w, bit_offset,
                        Shl(val, shift))

-----------------------------------------------------------------------------
(* header.py: HeaderInstance *)

\* The header descriptions (air_header_attrs["fields"]) the model parses and
\* adds: a byte-aligned 16-bit field (struct.unpack path), fields that start
\* and end inside a byte, and a header whose bit length is no multiple of 8.
HeaderDescs ==
    [ethertype |-> <<[name |-> "ethertype", width |-> 16]>>,
     vlan      |-> <<[name |-> "pcp", width |-> 3],
                     [name |-> "cfi", width |-> 1],
                     [name |-> "vid", width |-> 12]>>,
     flags     |-> <<[name |-> "flag", width |-> 3]>>]

HeaderNames == DOMAIN HeaderDescs

MAX_PACKET_BYTES == 12 * 1024
empty_byte_array == ZeroBytes(MAX_PACKET_BYTES)

\* the bytes a HeaderInstance's byte_buffer refers to; original is the
\* original_packet of the packet that holds the header
BufferOf(h, original) ==
    IF h.byte_buffer = "empty_byte_array" THEN empty_byte_array
    ELSE Bytes(original)

\* field_width_get (field.py lines 26-27): attrs is an int
field_width_get(attrs) == attrs

\* HeaderInstance.__init__ lines 78-93: the loop over the fields
RECURSIVE ParseFields(_, _, _, _, _, _)
ParseFields(desc, i, buf, hoffset, bit_offset, fields) ==
    IF i > Len(desc) THEN [ok |-> TRUE, fields |-> fields, bits |-> bit_offset]
    ELSE LET w == field_width_get(desc[i].width)
             r == extract(w, buf, hoffset, bit_offset)
         IN  IF ~r.ok THEN [ok |-> FALSE, fields |-> fields, bits |-> bit_offset]
             ELSE ParseFields(desc, i + 1, buf, hoffset, bit_offset + w,
                              Append(fields, [name |-> desc[i].name,
                                              width |-> w,
                                              value |-> r.value]))

\* HeaderInstance(name, attrs, byte_buffer, offset) (lines 26-103).
\* byte_buffer is the bytes passed, or <<>> for None; an empty bytearray is
\* falsy like None (line 51).
HeaderInstance(name, attrs, byte_buffer, hoffset) ==
    LET which == IF byte_buffer # <<>> THEN "original_packet"
                 ELSE "empty_byte_array"
        buf == IF byte_buffer # <<>> THEN Bytes(byte_buffer)
               ELSE empty_byte_array
        r == ParseFields(HeaderDescs[attrs], 1, buf, hoffset, 0, <<>>)
    IN  [ok |-> r.ok,
         hdr |-> [name |-> name, attrs |-> attrs, byte_buffer |-> which,
                  offset |-> hoffset, length |-> (r.bits + 7) \div 8,
                  bit_length |-> r.bits, modified |-> FALSE,
                  fields |-> r.fields]]

FieldIndex(h, field_name) ==
    IF \E i \in 1..Len(h.fields) : h.fields[i].name = field_name
    THEN CHOOSE i \in 1..Len(h.fields) : h.fields[i].name = field_name
    ELSE 0

\* HeaderInstance.get_field (lines 111-123): 0 when the field is absent
HeaderGetField(h, field_name) ==
    IF FieldIndex(h, field_name) = 0 THEN <<>>
    ELSE h.fields[FieldIndex(h, field_name)].value

\* HeaderInstance.set_field (lines 125-151) with an int value and no width:
\* [none |-> returned None, hdr |-> the header afterwards]
HeaderSetField(h, field_name, v) ==
    IF FieldIndex(h, field_name) = 0 THEN [none |-> TRUE, hdr |-> h]
    ELSE [none |-> FALSE,
          hdr |-> [h EXCEPT !.fields[FieldIndex(h, field_name)].value = v,
                            !.modified = TRUE]]

\* HeaderInstance.serialize lines 161-166: re-emit every field
RECURSIVE EmitFields(_, _, _, _)
EmitFields(fields, i, r, bit_offset) ==
    IF i > Len(fields) \/ ~r.ok THEN r
    ELSE EmitFields(fields, i + 1,
                    update_header_bytes(fields[i].width, fields[i].value,
                                        r.bytes, bit_offset),
                    bit_offset + fields[i].width)

\* HeaderInstance.serialize (lines 153-166)
HeaderSerialize(h, original) ==
    IF ~h.modified
    THEN [ok |-> TRUE,
          bytes |-> Slice(BufferOf(h, original), h.offset, h.offset + h.length)]
    ELSE EmitFields(h.fields, 1, [ok |-> TRUE, bytes |-> Zeros(h.length)], 0)

-----------------------------------------------------------------------------
(* air_common.py: ListDict, an ordered map from header name to header; the *)
(* model keeps it as the sequence of its values in iteration order         *)

KeyIndex(m, key) ==
    IF \E i \in 1..Len(m) : m[i].name = key
    THEN CHOOSE i \in 1..Len(m) : m[i].name = key
    ELSE 0

HasKey(m, key) == KeyIndex(m, key) # 0

\* OrderedDict.__setitem__: a new key goes last, an existing key keeps its place
SetItem(m, key, val) ==
    IF HasKey(m, key) THEN [m EXCEPT ![KeyIndex(m, key)] = val]
    ELSE Append(m, val)

\* OrderedDict.__delitem__
DelItem(m, key) ==
    SubSeq(m, 1, KeyIndex(m, key) - 1) \o SubSeq(m, KeyIndex(m, key) + 1, Len(m))

\* ListDict.__insertion after the link at position at (0 is the root link)
Insertion(m, at, val) ==
    IF at # 0 /\ m[at].name = val.name THEN [m EXCEPT ![at] = val]
    ELSE LET had == HasKey(m, val.name)
             m2 == IF had THEN DelItem(m, val.name) ELSE m
             at2 == IF had /\ KeyIndex(m, val.name) < at THEN at - 1 ELSE at
         IN  SubSeq(m2, 1, at2) \o <<val>> \o SubSeq(m2, at2 + 1, Len(m2))

\* ListDict.insert_after putting the new link last instead of after the anchor
insert_after_AtEnd(m, existing_key, val) == Append(m, val)

\* ListDict.insert_after (lines 77-78)
insert_after(m, existing_key, val) ==
    Insertion(m, KeyIndex(m, existing_key), val)

-----------------------------------------------------------------------------
(* parsed_packet.py: ParsedPacket *)

None == -1

\* metadata_dict of the instance: the metadata headers of every packet
MetadataNames == {"intrinsic_metadata"}
MetadataDescs ==
    [intrinsic_metadata |->
        <<[name |-> "egress_specification", width |-> 32],
          [name |-> "egress_port", width |-> 16]>>]

\* HeaderInstance(name, md) for a metadata header (line 104): no buffer
MetadataInstance(name) ==
    LET r == ParseFields(MetadataDescs[name], 1, empty_byte_array, 0, 0, <<>>)
    IN  [name |-> name, attrs |-> name, byte_buffer |-> "empty_byte_array",
         offset |-> 0, length |-> (r.bits + 7) \div 8, bit_length |-> r.bits,
         modified |-> FALSE, fields |-> r.fields]

\* ParsedPacket.__init__ (lines 76-106); map is the index of its new ListDict
NewPacket(original_packet, map, id) ==
    [original_packet |-> original_packet,
     header_map |-> map,
     headers |-> <<>>,
     header_length |-> 0,
     payload_offset |-> 0,
     payload_length |-> Len(original_packet),
     id |-> id,
     parent_id |-> None,
     metadata |-> <<MetadataInstance("intrinsic_metadata")>>]

\* the ListDict a packet's header_map attribute refers to
HeaderMap(p) == maps[packets[p].header_map]

RECURSIVE SumLengths(_)
SumLengths(m) == IF m = <<>> THEN 0 ELSE m[1].length + SumLengths(Tail(m))

\* ParsedPacket.serialize (lines 245-255) for a packet record and its map
RECURSIVE SerializeHeaders(_, _, _)
SerializeHeaders(m, original, r) ==
    IF m = <<>> \/ ~r.ok THEN r
    ELSE LET h == HeaderSerialize(m[1], original)
         IN  SerializeHeaders(Tail(m), original,
                              [ok |-> h.ok, bytes |-> r.bytes \o h.bytes])

SerializeOf(pkt, m) ==
    LET r == SerializeHeaders(m, pkt.original_packet,
                              [ok |-> TRUE, bytes |-> <<>>])
        payload_start == pkt.payload_offset
        payload_end == pkt.payload_offset + pkt.payload_length
    IN  [ok |-> r.ok,
         bytes |-> r.bytes \o Slice(Bytes(pkt.original_packet),
                                    payload_start, payload_end)]

serialize(p) == SerializeOf(packets[p], HeaderMap(p))

\* ParsedPacket.get_field (lines 135-150); ref is field_ref.split(".")
GetFieldOf(pkt, m, ref) ==
    IF Len(ref) # 2 THEN [none |-> TRUE, value |-> <<>>]
    ELSE IF HasKey(m, ref[1])
         THEN [none |-> FALSE,
               value |-> HeaderGetField(m[KeyIndex(m, ref[1])], ref[2])]
    ELSE IF HasKey(pkt.metadata, ref[1])
         THEN [none |-> FALSE,
               value |-> HeaderGetField(
                            pkt.metadata[KeyIndex(pkt.metadata, ref[1])],
                            ref[2])]
    ELSE [none |-> TRUE, value |-> <<>>]

get_field(p, ref) == GetFieldOf(packets[p], HeaderMap(p), ref)

\* table_entry.py: the entry objects. match_values and match_masks are one
\* sequence of [ref, value, masked, mask]; masked is FALSE when match_masks is
\* None or lacks the key (deref_or_none, line 87)
Match(ref, v) == [ref |-> ref, value |-> v, masked |-> FALSE, mask |-> <<>>]
Masked(ref, v, mask) == [ref |-> ref, value |-> v, masked |-> TRUE, mask |-> mask]
TableEntryExact(match_values, action_ref, action_params) ==
    [kind |-> "exact", match_values |-> match_values, action_ref |-> action_ref,
     action_params |-> action_params, priority |-> 0]
TableEntryTernary(match_values, action_ref, action_params, priority) ==
    [kind |-> "ternary", match_values |-> match_values,
     action_ref |-> action_ref, action_params |-> action_params,
     priority |-> priority]
TableEntryDefault(action_ref, action_params) ==
    [kind |-> "default", match_values |-> <<>>, action_ref |-> action_ref,
     action_params |-> action_params, priority |-> 0]

\* no entry: self.default_entry = None (table.py line 33)
NoEntry ==
    [kind |-> "none", match_values |-> <<>>, action_ref |-> "",
     action_params |-> [egress |-> <<>>], priority |-> 0]

\* what a call returned: raised an exception, returned None, or returned
\* the length ret_len (add/remove header), the value ret_val (set_field),
\* the object ret_obj (constructor, replicate), the pair (ret_hit, name)
\* (Table.process_packet) or the truth value ret_hit (check_match); entry is
\* the table entry the call is about, ref the field reference it was given,
\* visited the parser states a process call went through, handed_on the
\* number of times it called next_processor.process, and edges the edges of
\* the table a round of Pipeline.process chose the next table from
Call(op, p, name, anchor) ==
    [op |-> op, pkt |-> p, name |-> name, anchor |-> anchor, field |-> "",
     raised |-> FALSE, ret_none |-> FALSE, ret_len |-> 0, ret_val |-> <<>>,
     ret_obj |-> 0, ret_hit |-> FALSE, entry |-> NoEntry, ref |-> <<>>,
     visited |-> <<>>, handed_on |-> 0, edges |-> <<>>, graph |-> <<>>,
     select_value |-> [none |-> TRUE, value |-> <<>>]]

NoCall == Call("none", 0, "", "")

\* bounds and inputs of the packet model
MaxPackets == 2
MaxCalls == 5
Buffers == {<<129, 0, 161, 100, 92, 62>>, <<255, 18, 128>>}
FieldRefs ==
    UNION {{<<h, HeaderDescs[h][i].name>> : i \in 1..Len(HeaderDescs[h])} :
              h \in HeaderNames}
\* the values set_field is called with: one that fits every field and one
\* that fits the 12- and 16-bit fields
SetValues == {IntOf(5), IntOf(2730)}

PacketIds == 1..Len(packets)

\* ParsedPacket(original_packet, metadata_dict) (lines 76-106)
Construct(original_packet) ==
    /\ Len(packets) < MaxPackets
    /\ packets' = Append(packets,
                         NewPacket(original_packet, Len(maps) + 1, id_next))
    /\ maps' = Append(maps, <<>>)
    /\ id_next' = id_next + 1
    /\ last' = [Call("init", Len(packets) + 1, "", "")
                   EXCEPT !.ret_obj = Len(packets) + 1]

\* parse_header that forgets to advance the payload window (lines 131-132)
parse_header_NoAdvance(p, header_name) ==
    LET pkt == packets[p]
        h == HeaderInstance(header_name, header_name, pkt.original_packet,
                            pkt.payload_offset)
    IN  IF ~h.ok
        THEN /\ last' = [Call("parse_header", p, header_name, "")
                            EXCEPT !.raised = TRUE]
             /\ UNCHANGED <<packets, maps, id_next>>
        ELSE /\ maps' = [maps EXCEPT ![pkt.header_map] =
                                        SetItem(@, header_name, h.hdr)]
             /\ packets' = [packets EXCEPT
                    ![p].header_length = @ + h.hdr.length]
             /\ last' = [Call("parse_header", p, header_name, "")
                            EXCEPT !.ret_none = TRUE]
             /\ UNCHANGED id_next

\* ParsedPacket.parse_header (lines 108-133) for a header of type "header"
parse_header(p, header_name) ==
    LET pkt == packets[p]
        h == HeaderInstance(header_name, header_name, pkt.original_packet,
                            pkt.payload_offset)
    IN  IF ~h.ok
        THEN /\ last' = [Call("parse_header", p, header_name, "")
                            EXCEPT !.raised = TRUE]
             /\ UNCHANGED <<packets, maps, id_next>>
        ELSE /\ maps' = [maps EXCEPT ![pkt.header_map] =
                                        SetItem(@, header_name, h.hdr)]
             /\ packets' = [packets EXCEPT
                    ![p].payload_offset = @ + h.hdr.length,
                    ![p].payload_length = @ - h.hdr.length,
                    ![p].header_length = @ + h.hdr.length]
             /\ last' = [Call("parse_header", p, header_name, "")
                            EXCEPT !.ret_none = TRUE]
             /\ UNCHANGED id_next

\* ParsedPacket.set_field (lines 152-166) on a packet record and its map;
\* ref is field_ref.split("."): the packet and the map afterwards
SetFieldOf(pkt, m, ref, v) ==
    IF HasKey(m, ref[1])
    THEN LET r == HeaderSetField(m[KeyIndex(m, ref[1])], ref[2], v)
         IN  [none |-> r.none, pkt |-> pkt,
              map |-> [m EXCEPT ![KeyIndex(m, ref[1])] = r.hdr]]
    ELSE IF HasKey(pkt.metadata, ref[1])
    THEN LET k == KeyIndex(pkt.metadata, ref[1])
             r == HeaderSetField(pkt.metadata[k], ref[2], v)
         IN  [none |-> r.none, pkt |-> [pkt EXCEPT !.metadata[k] = r.hdr],
              map |-> m]
    ELSE [none |-> TRUE, pkt |-> pkt, map |-> m]

\* ParsedPacket.set_field (lines 152-166). Line 159 unpacks
\* field_ref.split(".") into (hdr, fld) outside any try: a reference that
\* does not split in two raises ValueError.
set_field(p, ref, v) ==
    IF Len(ref) # 2
    THEN /\ last' = [Call("set_field", p, "", "")
                        EXCEPT !.ref = ref, !.raised = TRUE]
         /\ UNCHANGED <<packets, maps, id_next>>
    ELSE LET r == SetFieldOf(packets[p], HeaderMap(p), ref, v)
         IN  /\ packets' = [packets EXCEPT ![p] = r.pkt]
             /\ maps' = [maps EXCEPT ![packets[p].header_map] = r.map]
             /\ last' = [Call("set_field", p, ref[1], "")
                            EXCEPT !.field = ref[2], !.ref = ref,
                                   !.ret_none = r.none,
                                   !.ret_val = IF r.none THEN <<>> ELSE v]
             /\ UNCHANGED id_next

\* ParsedPacket.get_field (lines 135-150) as a call
GetField(p, ref) ==
    LET r == get_field(p, ref)
    IN  /\ last' = [Call("get_field", p, "", "")
                       EXCEPT !.ref = ref, !.ret_none = r.none,
                              !.ret_val = r.value]
        /\ UNCHANGED <<packets, maps, id_next>>

\* ParsedPacket.add_header_before (lines 168-186). Line 181 passes
\* AIRPacketModException to air_check; no module defines that name, so
\* evaluating the argument raises NameError before anything is checked or
\* inserted.
add_header_before(p, header_name, before_header_name) ==
    /\ last' = [Call("add_header_before", p, header_name, before_header_name)
                   EXCEPT !.raised = TRUE]
    /\ UNCHANGED <<packets, maps, id_next>>

\* ParsedPacket.add_header_after (lines 188-208)
add_header_after(p, header_name, after_header_name) ==
    LET pkt == packets[p]
        m == HeaderMap(p)
        call == Call("add_header_after", p, header_name, after_header_name)
        h == HeaderInstance(header_name, header_name, <<>>, 0)
    IN  IF ~HasKey(m, after_header_name) \/ HasKey(m, header_name)
        THEN /\ last' = [call EXCEPT !.ret_none = TRUE]
             /\ UNCHANGED <<packets, maps, id_next>>
        ELSE IF ~h.ok
        THEN /\ last' = [call EXCEPT !.raised = TRUE]
             /\ UNCHANGED <<packets, maps, id_next>>
        ELSE /\ maps' = [maps EXCEPT ![pkt.header_map] =
                            insert_after(@, after_header_name, h.hdr)]
             /\ packets' = [packets EXCEPT
                    ![p].header_length = @ + h.hdr.length]
             /\ last' = [call EXCEPT !.ret_len = h.hdr.length]
             /\ UNCHANGED id_next

\* ParsedPacket.remove_header (lines 210-226)
remove_header(p, header_name) ==
    LET pkt == packets[p]
        m == HeaderMap(p)
        call == Call("remove_header", p, header_name, "")
    IN  IF ~HasKey(m, header_name)
        THEN /\ last' = [call EXCEPT !.ret_none = TRUE]
             /\ UNCHANGED <<packets, maps, id_next>>
        ELSE LET hdr_len == m[KeyIndex(m, header_name)].length
             IN  /\ packets' = [packets EXCEPT ![p].header_length = @ - hdr_len]
                 /\ maps' = [maps EXCEPT ![pkt.header_map] =
                                DelItem(@, header_name)]
                 /\ last' = [call EXCEPT !.ret_len = hdr_len]
                 /\ UNCHANGED id_next

\* ParsedPacket.replicate (lines 307-319). copy.copy gives the replicant the
\* attributes of self, header_map included (the same ListDict object); the
\* deep copy of the header map is stored in a new attribute, headers.
replicate(p) ==
    /\ Len(packets) < MaxPackets
    /\ LET self == packets[p]
           copied == [self EXCEPT !.headers = HeaderMap(p)]
           self_id == id_next
           replicant == [copied EXCEPT !.parent_id = self_id]
       IN  /\ packets' = Append([packets EXCEPT ![p].id = self_id], replicant)
           /\ id_next' = id_next + 1
           /\ last' = [Call("replicate", p, "", "")
                          EXCEPT !.ret_obj = Len(packets) + 1]
    /\ UNCHANGED maps

-----------------------------------------------------------------------------
(* parser.py: ParserStateTransition and Parser *)

\* The parse graph of the model: parse_ethertype extracts the ethertype
\* header and selects on its field; the edge with value 0x8100 leads to
\* parse_vlan, the edge with value 0xff12 to parse_flags, and there is no
\* default edge. A state name of "" is None; a select_value of <<>> means the
\* state has no "select_value" key.
parser_states ==
    [parse_ethertype |-> [extracts |-> <<"ethertype">>,
                          select_value |-> <<"ethertype", "ethertype">>],
     parse_vlan      |-> [extracts |-> <<"vlan">>, select_value |-> <<>>],
     parse_flags     |-> [extracts |-> <<"flags">>, select_value |-> <<>>]]

first_state_name == "parse_ethertype"

\* ParserStateTransition.__init__ and _add_edge (lines 39-132) applied to the
\* edges of the graph: per state the default, the value map and the two maps
\* from the name of a value set to a next state
NoEdges ==
    [default |-> "", value_map |-> <<>>, in_value_sets |-> <<>>,
     not_in_value_sets |-> <<>>]

transitions ==
    [parse_ethertype |-> [NoEdges EXCEPT !.value_map =
                             <<<<33024, "parse_vlan">>,
                               <<65298, "parse_flags">>>>],
     parse_vlan      |-> NoEdges,
     parse_flags     |-> NoEdges]

\* a next_state that looks at the value sets before the specific values
next_state_SetsFirst(tr, select_value) ==
    IF select_value.none THEN [raised |-> FALSE, state |-> tr.default]
    ELSE IF tr.in_value_sets # <<>> \/ tr.not_in_value_sets # <<>>
    THEN [raised |-> TRUE, state |-> ""]
    ELSE IF \E i \in 1..Len(tr.value_map) :
                tr.value_map[i][1] = NatOf(select_value.value)
    THEN [raised |-> FALSE,
          state |-> tr.value_map[
                       CHOOSE i \in 1..Len(tr.value_map) :
                           tr.value_map[i][1] = NatOf(select_value.value)][2]]
    ELSE [raised |-> FALSE, state |-> tr.default]

\* ParserStateTransition.next_state (lines 55-83). select_value is what
\* get_field returned. The keys of in_value_sets and not_in_value_sets are the
\* names of the value sets (lines 112 and 124), so the membership tests of
\* lines 74 and 78 ask whether an int is in a str, which raises TypeError.
next_state(tr, select_value) ==
    IF select_value.none THEN [raised |-> FALSE, state |-> tr.default]
    ELSE IF \E i \in 1..Len(tr.value_map) :
                tr.value_map[i][1] = NatOf(select_value.value)
    THEN [raised |-> FALSE,
          state |-> tr.value_map[
                       CHOOSE i \in 1..Len(tr.value_map) :
                           tr.value_map[i][1] = NatOf(select_value.value)][2]]
    ELSE IF tr.in_value_sets # <<>> \/ tr.not_in_value_sets # <<>>
    THEN [raised |-> TRUE, state |-> ""]
    ELSE [raised |-> FALSE, state |-> tr.default]

\* an edge of the parse graph: its destination and the attribute that gives
\* its condition, "value" with a number, "in_value_set" or
\* "not_in_value_set" with the name of a value set, or "" for a default edge
ParserEdge(dst, attr, val, set_name) ==
    [dst |-> dst, attr |-> attr, value |-> val, set_name |-> set_name]

\* d[key] = next_state on a dict kept as a sequence of <<key, next_state>>
DictSet(d, key, state) ==
    LET Other(x) == x[1] # key
    IN  Append(SelectSeq(d, Other), <<key, state>>)

\* ParserStateTransition._add_edge (lines 85-132), the value set being one
\* of all_value_sets
add_edge(tr, edge) ==
    IF edge.attr = "value"
    THEN [tr EXCEPT !.value_map = DictSet(@, edge.value, edge.dst)]
    ELSE IF edge.attr = "in_value_set"
    THEN [tr EXCEPT !.in_value_sets = DictSet(@, edge.set_name, edge.dst)]
    ELSE IF edge.attr = "not_in_value_set"
    THEN [tr EXCEPT !.not_in_value_sets = DictSet(@, edge.set_name, edge.dst)]
    ELSE [tr EXCEPT !.default = edge.dst]

\* ParserStateTransition.__init__ (lines 34-53) on the edges that leave the
\* state
RECURSIVE ParserStateTransition(_)
ParserStateTransition(edges) ==
    IF edges = <<>> THEN NoEdges
    ELSE add_edge(ParserStateTransition(SubSeq(edges, 1, Len(edges) - 1)),
                  edges[Len(edges)])

\* next_state(select_value) of the transition built from the edges, as a
\* call
NextState(edges, select_value) ==
    LET Made(n) ==
            last' = [Call("next_state", 0, n.state, "")
                        EXCEPT !.raised = n.raised,
                               !.ret_none = ~n.raised /\ n.state = "",
                               !.graph = edges,
                               !.select_value = select_value]
    IN  Made(next_state(ParserStateTransition(edges), select_value))

\* ParsedPacket.parse_header (lines 108-133) on a packet record and its map
ParseHeaderOf(pkt, m, header_name) ==
    LET Parsed(h) ==
            IF ~h.ok THEN [ok |-> FALSE, pkt |-> pkt, map |-> m]
            ELSE [ok |-> TRUE,
                  pkt |-> [pkt EXCEPT !.payload_offset = @ + h.hdr.length,
                                      !.payload_length = @ - h.hdr.length,
                                      !.header_length = @ + h.hdr.length],
                  map |-> SetItem(m, header_name, h.hdr)]
    IN  Parsed(HeaderInstance(header_name, header_name, pkt.original_packet,
                              pkt.payload_offset))

\* Parser.process lines 200-204: the loop over the extracts of a state
RECURSIVE ParseExtracts(_, _, _)
ParseExtracts(pkt, m, extracts) ==
    IF extracts = <<>> THEN [ok |-> TRUE, pkt |-> pkt, map |-> m]
    ELSE LET Rest(r) == IF ~r.ok THEN r
                         ELSE ParseExtracts(r.pkt, r.map, Tail(extracts))
         IN  Rest(ParseHeaderOf(pkt, m, extracts[1]))

\* Parser.process lines 193-212: the loop over the states, from state_name;
\* visited is the sequence of the states entered so far
RECURSIVE ParseStates(_, _, _, _)
ParseStates(pkt, m, state_name, visited) ==
    IF state_name = ""
    THEN [raised |-> FALSE, pkt |-> pkt, map |-> m, visited |-> visited]
    ELSE LET state_attrs == parser_states[state_name]
             here == Append(visited, state_name)
             select_value(e) ==
                 IF state_attrs.select_value = <<>>
                 THEN [none |-> TRUE, value |-> <<>>]
                 ELSE GetFieldOf(e.pkt, e.map, state_attrs.select_value)
             Transition(e, n) ==
                 IF ~e.ok \/ n.raised
                 THEN [raised |-> TRUE, pkt |-> e.pkt, map |-> e.map,
                       visited |-> here]
                 ELSE ParseStates(e.pkt, e.map, n.state, here)
             Extracted(e) ==
                 Transition(e, next_state(transitions[state_name],
                                          select_value(e)))
         IN  Extracted(ParseExtracts(pkt, m, state_attrs.extracts))

\* Parser.process that hands the packet on in every state it visits
ParserProcess_HandPerState(pkt, m) ==
    LET Result(r) ==
            [raised |-> r.raised, pkt |-> r.pkt, map |-> r.map,
             visited |-> r.visited,
             handed_on |-> IF r.raised THEN Len(r.visited) - 1
                           ELSE Len(r.visited)]
    IN  Result(ParseStates(pkt, m, first_state_name, <<>>))

\* Parser.process (lines 171-217) with a next_processor: the packet and its
\* map afterwards, the states visited, and how many times
\* next_processor.process was called with the packet
ParserProcess(pkt, m) ==
    LET Result(r) ==
            [raised |-> r.raised, pkt |-> r.pkt, map |-> r.map,
             visited |-> r.visited,
             handed_on |-> IF r.raised THEN 0 ELSE 1]
    IN  Result(ParseStates(pkt, m, first_state_name, <<>>))

\* the packets that ingress: the buffers of the packet model, one whose
\* ethertype takes no edge, and one that ends inside the vlan header
IngressBuffers == Buffers \cup {<<8, 0, 69>>, <<129, 0, 7>>}

\* IriInstance.process_packet (instance.py lines 204-222) of an enabled
\* instance whose first processor is the parser
ProcessPacket(packet) ==
    /\ Len(packets) < MaxPackets
    /\ LET Processed(r) ==
               /\ packets' = Append(packets, r.pkt)
               /\ maps' = Append(maps, r.map)
               /\ last' = [Call("process", Len(packets) + 1, "", "")
                              EXCEPT !.raised = r.raised,
                                     !.ret_none = ~r.raised,
                                     !.visited = r.visited,
                                     !.handed_on = r.handed_on]
       IN  Processed(ParserProcess(
               NewPacket(packet, Len(maps) + 1, id_next), <<>>))
    /\ id_next' = id_next + 1

-----------------------------------------------------------------------------
(* parsed_packet.py: __init__ and replicate called by several threads. The   *)
(* Switch thread constructs packets (instance.py line 218) while the thread  *)
(* of a traffic manager hands packets to the next one, whose process()       *)
(* replicates them (simple_queue.py line 106). No lock guards id_next, and   *)
(* the interpreter may switch threads between two bytecodes: the statement   *)
(* ParsedPacket.id_next += 1 loads the attribute, adds, and stores it.       *)

NumThreads == 2
Threads == 1..NumThreads

\* a thread that is inside no method
IdleThread ==
    [pc |-> "idle", obj |-> 0, self |-> 0, loaded |-> 0,
     op |-> "", entry |-> NoEntry, idx |-> 0, hit |-> FALSE,
     clear_stats |-> FALSE, clear_default |-> FALSE,
     seen |-> [entries |-> <<>>, default_entry |-> NoEntry],
     table |-> "", edges |-> <<>>]

ThreadInit ==
    thread = [t \in Threads |-> IdleThread]

\* __init__ lines 84-95, up to self.id = ParsedPacket.id_next
InitAssignId(t, original_packet) ==
    /\ thread[t].pc = "idle"
    /\ Len(packets) < MaxPackets
    /\ packets' = Append(packets,
                         NewPacket(original_packet, Len(maps) + 1, id_next))
    /\ maps' = Append(maps, <<>>)
    /\ thread' = [thread EXCEPT ![t].pc = "load", ![t].obj = Len(packets) + 1]
    /\ UNCHANGED id_next

\* replicate lines 311-315, up to self.id = ParsedPacket.id_next
ReplicateAssignId(t, p) ==
    /\ thread[t].pc = "idle"
    /\ Len(packets) < MaxPackets
    /\ LET self == packets[p]
           replicant == [self EXCEPT !.headers = HeaderMap(p)]
       IN  packets' = Append([packets EXCEPT ![p].id = id_next], replicant)
    /\ thread' = [thread EXCEPT ![t].pc = "load_repl",
                                ![t].obj = Len(packets) + 1, ![t].self = p]
    /\ UNCHANGED <<maps, id_next>>

\* ParsedPacket.id_next += 1 (lines 96 and 316): the load of the attribute
IdNextLoad(t) ==
    /\ thread[t].pc \in {"load", "load_repl"}
    /\ thread' = [thread EXCEPT
           ![t].pc = IF thread[t].pc = "load" THEN "store" ELSE "store_repl",
           ![t].loaded = id_next]
    /\ UNCHANGED <<packets, maps, id_next>>

\* ParsedPacket.id_next += 1: the store of the sum, and the rest of __init__
\* (lines 97-106)
InitStoreId(t) ==
    /\ thread[t].pc = "store"
    /\ id_next' = thread[t].loaded + 1
    /\ thread' = [thread EXCEPT ![t].pc = "idle"]
    /\ UNCHANGED <<packets, maps>>

\* ParsedPacket.id_next += 1: the store of the sum, and the rest of replicate
\* (line 317, replicant.parent_id = self.id)
ReplicateStoreId(t) ==
    /\ thread[t].pc = "store_repl"
    /\ id_next' = thread[t].loaded + 1
    /\ packets' = [packets EXCEPT
           ![thread[t].obj].parent_id = packets[thread[t].self].id]
    /\ thread' = [thread EXCEPT ![t].pc = "idle"]
    /\ UNCHANGED maps

-----------------------------------------------------------------------------
(* table_entry.py, action.py, table.py: one Table and its action map *)

\* p_value & mask on Python ints
RECURSIVE AndBits(_, _)
AndBits(a, b) ==
    IF a = <<>> \/ b = <<>> THEN <<>>
    ELSE <<a[1] * b[1]>> \o AndBits(Tail(a), Tail(b))
IntAnd(a, b) == Trim(AndBits(a, b))

\* TableEntryExact.check_match (lines 44-53) and TableEntryTernary.check_match
\* (lines 81-98): the truth value of what they return
check_match(entry, pkt, m) ==
    \A i \in 1..Len(entry.match_values) :
        LET field == entry.match_values[i]
            p_value == GetFieldOf(pkt, m, field.ref)
        IN  /\ ~p_value.none
            /\ IF entry.kind = "ternary" /\ field.masked
               THEN IntAnd(p_value.value, field.mask)
                        = IntAnd(field.value, field.mask)
               ELSE p_value.value = field.value

\* The action map holds one action, set_egress, with parameter_list [egress]
\* and implementation
\*     modify_field(intrinsic_metadata.egress_specification, egress);
\* Action.eval (action.py lines 166-183) builds the value map and calls
\* IriPrimitiveModifyField.eval (lines 29-48), which without a mask calls
\* parsed_packet.set_field(destination, value_map[source]).
EgressRef == <<"intrinsic_metadata", "egress_specification">>
ActionEval(action_ref, pkt, m, action_params) ==
    SetFieldOf(pkt, m, EgressRef, action_params.egress)

\* Table.__init__ (lines 15-40)
TableInit ==
    /\ entries = <<>> /\ default_entry = NoEntry
    /\ byte_count = 0 /\ packet_count = 0
    /\ table_cond_var = 0

\* the entries the model adds, all ternary as description_to_entry makes them
\* (table_entry.py lines 125-127): the ethertype the 6-byte buffer starts with
\* (0x8100) at priority 1, the same under the mask 0xff00 at priority 2, and
\* an ethertype no buffer holds; and a default entry
MaxEntries == 2
EntrySet ==
    {TableEntryTernary(<<Match(<<"ethertype", "ethertype">>, IntOf(33024))>>,
                       "set_egress", [egress |-> IntOf(1)], 1),
     TableEntryTernary(<<Masked(<<"ethertype", "ethertype">>, IntOf(33024),
                                IntOf(65280))>>,
                       "set_egress", [egress |-> IntOf(3)], 2),
     TableEntryTernary(<<Match(<<"ethertype", "ethertype">>, IntOf(7))>>,
                       "set_egress", [egress |-> IntOf(1)], 0)}
DefaultEntrySet == {TableEntryDefault("set_egress", [egress |-> IntOf(2)])}

\* the first entry of self.entries that matches (lines 58-59), 0 if none
FirstMatch(pkt, m) ==
    IF \E i \in 1..Len(entries) : check_match(entries[i], pkt, m)
    THEN CHOOSE i \in 1..Len(entries) :
            /\ check_match(entries[i], pkt, m)
            /\ \A j \in 1..(i - 1) : ~check_match(entries[j], pkt, m)
    ELSE 0

\* entry.check_match(parsed_packet) called on its own (table_entry.py lines
\* 160-170)
CheckMatch(entry, p) ==
    /\ last' = [Call("check_match", p, "", "")
                   EXCEPT !.entry = entry,
                          !.ret_hit = check_match(entry, packets[p],
                                                  HeaderMap(p))]
    /\ UNCHANGED <<packets, maps, id_next>>

\* a process_packet that counts the packet when the default entry is taken
process_packet_CountMiss(p) ==
    LET pkt == packets[p]
        m == HeaderMap(p)
        i == FirstMatch(pkt, m)
        call == Call("process_packet", p, "", "")
    IN  /\ IF i # 0
           THEN /\ packet_count' = packet_count + 1
                /\ last' = [call EXCEPT !.raised = TRUE, !.entry = entries[i]]
                /\ UNCHANGED <<byte_count, packets, maps>>
           ELSE IF default_entry # NoEntry
           THEN LET r == ActionEval(default_entry.action_ref, pkt, m,
                                    default_entry.action_params)
                IN  /\ packets' = [packets EXCEPT ![p] = r.pkt]
                    /\ maps' = [maps EXCEPT ![pkt.header_map] = r.map]
                    /\ last' = [call EXCEPT !.name = default_entry.action_ref,
                                            !.entry = default_entry]
                    /\ packet_count' = packet_count + 1
                    /\ UNCHANGED byte_count
           ELSE /\ last' = [call EXCEPT !.ret_none = TRUE]
                /\ UNCHANGED <<packet_count, byte_count, packets, maps>>
        /\ UNCHANGED <<entries, default_entry, id_next>>

\* Table.process_packet (lines 42-76). On a hit, line 64 counts the packet and
\* line 65 calls parsed_packet.length(): ParsedPacket has no attribute length,
\* so the call raises AttributeError and the with statement releases
\* cond_var.
process_packet(p) ==
    LET pkt == packets[p]
        m == HeaderMap(p)
        i == FirstMatch(pkt, m)
        call == Call("process_packet", p, "", "")
    IN  /\ IF i # 0
           THEN /\ packet_count' = packet_count + 1
                /\ last' = [call EXCEPT !.raised = TRUE, !.entry = entries[i]]
                /\ UNCHANGED <<byte_count, packets, maps>>
           ELSE IF default_entry # NoEntry
           THEN LET r == ActionEval(default_entry.action_ref, pkt, m,
                                    default_entry.action_params)
                IN  /\ packets' = [packets EXCEPT ![p] = r.pkt]
                    /\ maps' = [maps EXCEPT ![pkt.header_map] = r.map]
                    /\ last' = [call EXCEPT !.name = default_entry.action_ref,
                                            !.entry = default_entry]
                    /\ UNCHANGED <<packet_count, byte_count>>
           ELSE /\ last' = [call EXCEPT !.ret_none = TRUE]
                /\ UNCHANGED <<packet_count, byte_count, packets, maps>>
        /\ UNCHANGED <<entries, default_entry, id_next>>

\* Table.add_entry (lines 78-93) and set_default_entry (lines 135-138)
add_entry(entry, is_default) ==
    /\ IF is_default
       THEN default_entry' = entry /\ UNCHANGED entries
       ELSE /\ Len(entries) < MaxEntries
            /\ entries' = Append(entries, entry)
            /\ UNCHANGED default_entry
    /\ last' = [Call("add_entry", 0, entry.action_ref, "")
                   EXCEPT !.ret_none = TRUE]
    /\ UNCHANGED <<byte_count, packet_count, packets, maps, id_next>>

\* Table.clear (lines 110-126)
clear(clear_stats, clear_default) ==
    /\ packet_count' = IF clear_stats THEN 0 ELSE packet_count
    /\ byte_count' = IF clear_stats THEN 0 ELSE byte_count
    /\ entries' = <<>>
    /\ default_entry' = IF clear_default THEN NoEntry ELSE default_entry
    /\ last' = [Call("clear", 0, "", "") EXCEPT !.ret_none = TRUE]
    /\ UNCHANGED <<packets, maps, id_next>>

-----------------------------------------------------------------------------
(* table.py: the methods of one Table called by several threads. A thread of *)
(* a pipeline looks packets up while a control thread adds entries, sets the *)
(* default entry or clears the table. Each method runs its body inside       *)
(* "with self.cond_var": a thread that has called the method waits at the    *)
(* with statement until no thread owns cond_var, and the interpreter may     *)
(* switch threads between any two statements of the body.                    *)

\* the statement of the body a thread starts at once it owns cond_var
FirstStatement(op) ==
    CASE op = "process_packet"    -> "scan"
      [] op = "add_entry"         -> "append"
      [] op = "set_default_entry" -> "store_default"
      [] op = "clear"             -> "clear_stats"

\* a thread calls a method of the table and reaches its with statement:
\* process_packet lines 55-56 (hit = False, action_ref = None), add_entry
\* lines 89-90 (a TableEntryDefault goes to set_default_entry), clear line
\* 116, set_default_entry line 136
TableCall(t, op, p, entry, clear_stats, clear_default) ==
    /\ thread[t].pc = "idle"
    /\ op = "add_entry" => Len(entries) < MaxEntries
    /\ thread' = [thread EXCEPT ![t] =
           [@ EXCEPT !.pc = "with", !.op = op, !.obj = p, !.entry = entry,
                     !.idx = 1, !.hit = FALSE,
                     !.clear_stats = clear_stats,
                     !.clear_default = clear_default]]
    /\ UNCHANGED <<table_vars, id_next, packets, maps, last>>

\* a with statement that does not wait for the owner of cond_var
WithCondVar_NoWait(t) ==
    /\ thread[t].pc = "with"
    /\ table_cond_var' = t
    /\ thread' = [thread EXCEPT
           ![t].pc = FirstStatement(thread[t].op),
           ![t].seen = [entries |-> entries, default_entry |-> default_entry]]
    /\ UNCHANGED <<entries, default_entry, byte_count, packet_count,
                   id_next, packets, maps, last>>

\* with self.cond_var (lines 57, 92, 117, 137): Condition.__enter__ acquires
\* the lock of the condition, which no other thread may own. seen records
\* the entry list and the default entry the body starts from.
WithCondVar(t) ==
    /\ thread[t].pc = "with"
    /\ table_cond_var = 0
    /\ table_cond_var' = t
    /\ thread' = [thread EXCEPT
           ![t].pc = FirstStatement(thread[t].op),
           ![t].seen = [entries |-> entries, default_entry |-> default_entry]]
    /\ UNCHANGED <<entries, default_entry, byte_count, packet_count,
                   id_next, packets, maps, last>>

\* process_packet lines 58-63: one round of the loop over self.entries
LookupScan(t) ==
    /\ thread[t].pc = "scan"
    /\ LET idx == thread[t].idx
           p == thread[t].obj
       IN  thread' = [thread EXCEPT ![t] =
               IF idx > Len(entries) THEN [@ EXCEPT !.pc = "default"]
               ELSE IF check_match(entries[idx], packets[p], HeaderMap(p))
               THEN [@ EXCEPT !.pc = "count", !.hit = TRUE,
                              !.entry = entries[idx]]
               ELSE [@ EXCEPT !.idx = idx + 1]]
    /\ UNCHANGED <<table_vars, id_next, packets, maps, last>>

\* process_packet lines 64-65: the packet is counted, parsed_packet.length()
\* raises AttributeError, and the with statement releases cond_var
LookupCount(t) ==
    /\ thread[t].pc = "count"
    /\ packet_count' = packet_count + 1
    /\ table_cond_var' = 0
    /\ thread' = [thread EXCEPT ![t] = IdleThread]
    /\ last' = [Call("process_packet", thread[t].obj, "", "")
                   EXCEPT !.raised = TRUE, !.entry = thread[t].entry]
    /\ UNCHANGED <<entries, default_entry, byte_count, id_next, packets, maps>>

\* process_packet lines 67-71: no entry matched
LookupDefault(t) ==
    /\ thread[t].pc = "default"
    /\ thread' = [thread EXCEPT ![t].pc = "eval", ![t].entry = default_entry]
    /\ UNCHANGED <<table_vars, id_next, packets, maps, last>>

\* process_packet lines 73-76: the action of the default entry, if there is
\* one, the end of the with statement, and the return
LookupEval(t) ==
    /\ thread[t].pc = "eval"
    /\ LET p == thread[t].obj
           entry == thread[t].entry
           call == Call("process_packet", p, "", "")
       IN  IF entry # NoEntry
           THEN LET r == ActionEval(entry.action_ref, packets[p],
                                    HeaderMap(p), entry.action_params)
                IN  /\ packets' = [packets EXCEPT ![p] = r.pkt]
                    /\ maps' = [maps EXCEPT ![packets[p].header_map] = r.map]
                    /\ last' = [call EXCEPT !.name = entry.action_ref,
                                            !.entry = entry]
           ELSE /\ last' = [call EXCEPT !.ret_none = TRUE]
                /\ UNCHANGED <<packets, maps>>
    /\ table_cond_var' = 0
    /\ thread' = [thread EXCEPT ![t] = IdleThread]
    /\ UNCHANGED <<entries, default_entry, byte_count, packet_count, id_next>>

\* add_entry line 93: self.entries.append(entry), and the end of the with
AddEntryAppend(t) ==
    /\ thread[t].pc = "append"
    /\ entries' = Append(entries, thread[t].entry)
    /\ table_cond_var' = 0
    /\ thread' = [thread EXCEPT ![t] = IdleThread]
    /\ UNCHANGED <<default_entry, byte_count, packet_count,
                   id_next, packets, maps, last>>

\* set_default_entry line 138, and the end of the with
SetDefaultStore(t) ==
    /\ thread[t].pc = "store_default"
    /\ default_entry' = thread[t].entry
    /\ table_cond_var' = 0
    /\ thread' = [thread EXCEPT ![t] = IdleThread]
    /\ UNCHANGED <<entries, byte_count, packet_count,
                   id_next, packets, maps, last>>

\* clear lines 118-120: the counters
ClearStats(t) ==
    /\ thread[t].pc = "clear_stats"
    /\ packet_count' = IF thread[t].clear_stats THEN 0 ELSE packet_count
    /\ byte_count' = IF thread[t].clear_stats THEN 0 ELSE byte_count
    /\ thread' = [thread EXCEPT ![t].pc = "clear_entries"]
    /\ UNCHANGED <<entries, default_entry, table_cond_var,
                   id_next, packets, maps, last>>

\* clear lines 121-124: self.entries = []
ClearEntries(t) ==
    /\ thread[t].pc = "clear_entries"
    /\ entries' = <<>>
    /\ thread' = [thread EXCEPT ![t].pc = "clear_default"]
    /\ UNCHANGED <<default_entry, byte_count, packet_count, table_cond_var,
                   id_next, packets, maps, last>>

\* clear lines 125-126: the default entry, and the end of the with
ClearDefault(t) ==
    /\ thread[t].pc = "clear_default"
    /\ default_entry' = IF thread[t].clear_default THEN NoEntry
                        ELSE default_entry
    /\ table_cond_var' = 0
    /\ thread' = [thread EXCEPT ![t] = IdleThread]
    /\ UNCHANGED <<entries, byte_count, packet_count,
                   id_next, packets, maps, last>>

-----------------------------------------------------------------------------
(* pipeline.py: Pipeline *)

\* self.transitions[table] is a dict from the action attribute of an edge to
\* the destination of the edge (lines 58-76), here a sequence of
\* [label, dst]; a table that is only a destination has no edges
Edge(label, dst) == [label |-> label, dst |-> dst]
HasEdge(tr, label) == \E i \in 1..Len(tr) : tr[i].label = label
EdgeTo(tr, label) == tr[CHOOSE i \in 1..Len(tr) : tr[i].label = label].dst

\* the tables of the instance, the keys of table_map
TableNames == {"t1", "t2", "t3"}

\* an edge of the control-flow graph (pydot): its source, its destination
\* and its action attribute, "" when the edge has no such attribute
GraphEdge(src, dst, action) == [src |-> src, dst |-> dst, action |-> action]

\* Pipeline.__init__ lines 71-74 over the edge list, for one source table:
\* self.transitions[src_table][act_name] = dst_table for the edges that have
\* an action attribute; a later edge with the same action replaces the
\* earlier one, edges without the attribute leave the dict as it is
RECURSIVE TransitionsOf(_, _)
TransitionsOf(edge_list, table) ==
    IF edge_list = <<>> THEN <<>>
    ELSE LET edge == edge_list[Len(edge_list)]
             Other(x) == x.label # edge.action
             Assign(tr) ==
                 IF edge.src # table \/ edge.action = "" THEN tr
                 ELSE Append(SelectSeq(tr, Other),
                             Edge(edge.action, edge.dst))
         IN  Assign(TransitionsOf(SubSeq(edge_list, 1, Len(edge_list) - 1),
                                  table))

\* Pipeline.__init__ (lines 39-90) on the edge list of the graph, all of
\* whose tables are in table_map: the keys of self.transitions are the
\* sources and the destinations other than exit_control_flow (lines 62-69);
\* result starts as the keys and loses every destination stored in a
\* transition map (lines 79-83); air_assert wants one table left (line 86)
PipelineInit(edge_list) ==
    LET keys ==
            {edge_list[i].src : i \in 1..Len(edge_list)} \cup
            ({edge_list[i].dst : i \in 1..Len(edge_list)}
                 \ {"exit_control_flow"})
        tr == [table \in TableNames |-> TransitionsOf(edge_list, table)]
        result ==
            {table \in keys :
                \A src_table \in keys :
                    \A i \in 1..Len(tr[src_table]) :
                        tr[src_table][i].dst # table}
    IN  IF Cardinality(result) # 1
        THEN [raised |-> TRUE, transitions |-> tr, first_table_name |-> ""]
        ELSE [raised |-> FALSE, transitions |-> tr,
              first_table_name |-> CHOOSE table \in result : TRUE]

\* Pipeline(name, attrs, table_map, action_map) as a call
NewPipeline(edge_list) ==
    LET Made(pipeline) ==
            last' = [Call("Pipeline", 0, pipeline.first_table_name, "")
                        EXCEPT !.raised = pipeline.raised,
                               !.graph = edge_list]
    IN  Made(PipelineInit(edge_list))

\* the control-flow graphs of the model. Five start at t1 and have no edge
\* out of t2: an always edge, alone and next to a miss edge; a miss edge
\* next to the edge of the default action; the edge of the default action
\* alone; a hit edge alone. One has a cycle: t1 leads to t2, t2 to t3 and t3
\* back to t2.
ControlFlowGraphs ==
    {<<GraphEdge("t1", "exit_control_flow", "always")>>,
     <<GraphEdge("t1", "t2", "always"),
       GraphEdge("t1", "exit_control_flow", "miss")>>,
     <<GraphEdge("t1", "t2", "miss"),
       GraphEdge("t1", "exit_control_flow", "set_egress")>>,
     <<GraphEdge("t1", "t2", "set_egress")>>,
     <<GraphEdge("t1", "t2", "hit")>>,
     <<GraphEdge("t1", "t2", "always"), GraphEdge("t2", "t3", "always"),
       GraphEdge("t3", "t2", "always")>>}

\* the pipelines that construction accepts for these graphs
ControlFlows ==
    {pipeline \in {PipelineInit(edge_list) : edge_list \in ControlFlowGraphs} :
        ~pipeline.raised}

\* a resolution that looks for the edge of the action before the miss edge
NextTable_ActionFirst(tr, hit, action) ==
    IF HasEdge(tr, "always")
    THEN [raised |-> FALSE, name |-> EdgeTo(tr, "always")]
    ELSE IF action # "" /\ HasEdge(tr, action)
    THEN [raised |-> FALSE, name |-> EdgeTo(tr, action)]
    ELSE IF ~hit /\ HasEdge(tr, "miss")
    THEN [raised |-> FALSE, name |-> EdgeTo(tr, "miss")]
    ELSE IF hit /\ HasEdge(tr, "hit")
    THEN [raised |-> FALSE, name |-> EdgeTo(tr, "hit")]
    ELSE [raised |-> hit, name |-> "exit_control_flow"]

\* Pipeline.process lines 127-143: the name of the next table, from the
\* edges of the current one and the (hit, action) its lookup returned; action
\* is "" for None. Line 142 reads transition, a name that is not defined: on
\* a hit with neither an edge of the action nor a hit edge it raises
\* NameError.
NextTable(tr, hit, action) ==
    IF HasEdge(tr, "always")
    THEN [raised |-> FALSE, name |-> EdgeTo(tr, "always")]
    ELSE IF ~hit
    THEN IF HasEdge(tr, "miss")
         THEN [raised |-> FALSE, name |-> EdgeTo(tr, "miss")]
         ELSE IF action # "" /\ HasEdge(tr, action)
         THEN [raised |-> FALSE, name |-> EdgeTo(tr, action)]
         ELSE [raised |-> FALSE, name |-> "exit_control_flow"]
    ELSE IF HasEdge(tr, action)
         THEN [raised |-> FALSE, name |-> EdgeTo(tr, action)]
         ELSE IF HasEdge(tr, "hit")
         THEN [raised |-> FALSE, name |-> EdgeTo(tr, "hit")]
         ELSE [raised |-> TRUE, name |-> "exit_control_flow"]

\* Pipeline.process lines 92-104, called by thread t with packet p on the
\* pipeline of a control flow: current_table_name = self.first_table_name
PipelineStart(t, p, control_flow) ==
    /\ thread[t].pc = "idle"
    /\ thread' = [thread EXCEPT ![t] =
           [@ EXCEPT !.pc = "pipeline", !.op = "process", !.obj = p,
                     !.table = control_flow.first_table_name,
                     !.edges = control_flow.transitions]]
    /\ UNCHANGED <<table_vars, id_next, packets, maps, last>>

\* Pipeline.process lines 105-143: one round of the while loop. Every table
\* of the control flow holds the entries and the default entry of the model's
\* table. The lookup is Table.process_packet (table.py lines 42-76): on a hit
\* it counts the packet and raises AttributeError at line 65, which ends
\* Pipeline.process; on a miss it applies the default action, if any, and
\* returns (False, its name or None).
PipelineIteration(t) ==
    /\ thread[t].pc = "pipeline"
    /\ thread[t].table # "exit_control_flow"
    /\ table_cond_var = 0
    /\ LET p == thread[t].obj
           pkt == packets[p]
           m == HeaderMap(p)
           current_table_name == thread[t].table
           tr == thread[t].edges[current_table_name]
           call == [Call("pipeline", p, "", current_table_name)
                       EXCEPT !.edges = tr]
       IN  IF FirstMatch(pkt, m) # 0
           THEN /\ packet_count' = packet_count + 1
                /\ last' = [call EXCEPT !.raised = TRUE, !.ret_hit = TRUE]
                /\ thread' = [thread EXCEPT ![t] = IdleThread]
                /\ UNCHANGED <<packets, maps>>
           ELSE LET action == IF default_entry # NoEntry
                              THEN default_entry.action_ref ELSE ""
                    r == IF default_entry # NoEntry
                         THEN ActionEval(action, pkt, m,
                                         default_entry.action_params)
                         ELSE [pkt |-> pkt, map |-> m]
                    n == NextTable(tr, FALSE, action)
                IN  /\ packets' = [packets EXCEPT ![p] = r.pkt]
                    /\ maps' = [maps EXCEPT ![pkt.header_map] = r.map]
                    /\ last' = [call EXCEPT !.name = n.name,
                                            !.field = action,
                                            !.raised = n.raised]
                    /\ thread' = [thread EXCEPT ![t] =
                           IF n.raised THEN IdleThread
                           ELSE [@ EXCEPT !.table = n.name]]
                    /\ UNCHANGED packet_count
    /\ UNCHANGED <<entries, default_entry, byte_count, table_cond_var, id_next>>

\* Pipeline.process lines 105 and 145-148: the loop ends at
\* exit_control_flow and the packet goes to next_processor
PipelineExit(t) ==
    /\ thread[t].pc = "pipeline"
    /\ thread[t].table = "exit_control_flow"
    /\ last' = [Call("process", thread[t].obj, "", "exit_control_flow")
                   EXCEPT !.ret_none = TRUE, !.handed_on = 1]
    /\ thread' = [thread EXCEPT ![t] = IdleThread]
    /\ UNCHANGED <<table_vars, id_next, packets, maps>>

-----------------------------------------------------------------------------
(* simple_queue.py: SimpleQueueManager *)

port_count == 2
q_per_port == 2
NumProducers == 2
PacketsPerProducer == 2
Producers == 1..NumProducers
Free == 0
\* the thread of run(), as an owner of cond_var
Worker == NumProducers + 1

\* self.queues after __init__ (lines 46-55): 2 * port_count port lists; the
\* first port_count of them hold 2 * q_per_port queues, the others none.
\* Port and queue numbers start at 0, TLA+ indices at 1.
InitQueues ==
    [port \in 1..(2 * port_count) |->
        IF port <= port_count THEN [q \in 1..(2 * q_per_port) |-> <<>>]
        ELSE <<>>]

\* an egress specification is a 32-bit value: hi is its upper 16 bits, lo its
\* lower 16 bits; none is TRUE when get_field returned None
EgressSpec(hi, lo) == [none |-> FALSE, hi |-> hi, lo |-> lo]
NoEgressSpec == [none |-> TRUE, hi |-> 0, lo |-> 0]

\* self.multicast_map: __init__ makes it a list (line 38); map_egress_spec
\* uses it as a dict from multicast index to a list of (port, queue), which
\* it is once the program that configures the manager has assigned one.
\* items is the sequence of its (key, value) pairs.
McList == [is_dict |-> FALSE, items |-> <<>>]
McDict(items) == [is_dict |-> TRUE, items |-> items]

\* self.multicast_map[mc_idx], <<>> when mc_idx is not a key
McEntry(mc_map, mc_idx) ==
    IF \E i \in 1..Len(mc_map.items) : mc_map.items[i].key = mc_idx
    THEN mc_map.items[CHOOSE i \in 1..Len(mc_map.items) :
                         mc_map.items[i].key = mc_idx].dest
    ELSE <<>>

\* map_egress_spec (lines 58-80): [raised, dest], dest a list of <<port, queue>>.
\* Bit 28 (0x10000000) is bit 12 of hi. While self.multicast_map is a list,
\* self.multicast_map.keys() raises AttributeError.
map_egress_spec(egress_spec) ==
    IF egress_spec.none THEN [raised |-> FALSE, dest |-> <<>>]
    ELSE IF egress_spec.hi = 65535 /\ egress_spec.lo = 65535
    THEN [raised |-> FALSE, dest |-> <<>>]
    ELSE IF (egress_spec.hi \div 4096) % 2 = 0
    THEN [raised |-> FALSE, dest |-> <<<<egress_spec.lo, egress_spec.hi>>>>]
    ELSE IF ~multicast_map.is_dict THEN [raised |-> TRUE, dest |-> <<>>]
    ELSE [raised |-> FALSE, dest |-> McEntry(multicast_map, egress_spec.lo)]

\* the egress specifications of the packets the callers bring: every served
\* (port, queue), the drop value, a multicast index, a queue that exists but
\* is not served, and a port without queues
EgressSpecs ==
    {EgressSpec(q, port) : port \in 0..(port_count - 1),
                           q \in 0..(q_per_port - 1)}
        \cup {EgressSpec(65535, 65535), EgressSpec(4096, 1),
              EgressSpec(q_per_port, 0), EgressSpec(0, port_count)}

\* packet ids: the k-th packet of caller t
PacketOf(t, k) == (t - 1) * PacketsPerProducer + k
TMPackets == 1..(NumProducers * PacketsPerProducer)

\* self.next_processor is not None: IriInstance.__init__ sets it for every
\* processor of the layout (instance.py lines 131-141)
next_processor_set == TRUE

\* the program that configures the manager assigns the multicast map, the
\* way simple_queue.py line 194 assigns next_processor: index 1 has two
\* destinations, index 2 has one
ConfiguredMap ==
    McDict(<<[key |-> 1, dest |-> <<<<0, 0>>, <<1, 0>>>>],
             [key |-> 2, dest |-> <<<<1, 1>>>>]>>)

SetMulticastMap ==
    /\ ~multicast_map.is_dict
    /\ multicast_map' = ConfiguredMap
    /\ UNCHANGED <<queues, cond_var, event, running, producer, worker, enqueued,
                   handed>>

\* process() lines 92-93: what get_field("intrinsic_metadata.
\* egress_specification") returns for a packet without parsed headers
EgressSpecOf(pkt) ==
    LET r == GetFieldOf(pkt, <<>>, EgressRef)
    IN  IF r.none THEN NoEgressSpec
        ELSE EgressSpec(NatOf(Shr(r.value, 16)), NatOf(MaskTo(r.value, 16)))

\* the packets the pipeline brings to process(): constructed with the
\* metadata of the instance (instance.py line 218) and never touched by an
\* action; constructed without metadata (ParsedPacket(byte_buf, {}), as in
\* pipeline.py line 172); and packets whose egress specification an
\* action set, written as (upper, lower) 16 bits: the drop value 0xffffffff,
\* multicast indexes 1, 2 and 3 (0x10000001..3) and port 1, queue 1
\* (0x00010001)
FreshPacket == NewPacket(<<255, 18, 128>>, 0, 0)
BarePacket == [FreshPacket EXCEPT !.metadata = <<>>]
StampedPacket(v) ==
    SetFieldOf(FreshPacket, <<>>, EgressRef,
               Add(Shl(IntOf(v[1]), 16), IntOf(v[2]))).pkt
StampedValues ==
    {<<65535, 65535>>, <<4096, 1>>, <<4096, 2>>, <<4096, 3>>, <<1, 1>>}
Offers ==
    {[set |-> TRUE, egr_spec |-> EgressSpecOf(StampedPacket(v))] :
        v \in StampedValues}
    \cup {[set |-> FALSE, egr_spec |-> EgressSpecOf(FreshPacket)],
          [set |-> FALSE, egr_spec |-> EgressSpecOf(BarePacket)]}

TMInit ==
    /\ queues = InitQueues
    /\ cond_var = Free
    /\ event = FALSE
    /\ running = TRUE
    /\ producer = [t \in Producers |->
                      [pc |-> "idle", sent |-> 0, port |-> 0, queue |-> 0]]
    /\ worker = [pc |-> "top", packet |-> 0, port |-> 0, queue |-> 0,
                 last_port |-> 0, egress_port |-> None]
    /\ enqueued = <<>>
    /\ handed = <<>>
    /\ multicast_map = McList
    /\ offered = <<>>
    /\ mapped = [called |-> FALSE, egress_spec |-> NoEgressSpec,
                 raised |-> FALSE, dest |-> <<>>]

\* process() lines 92-106, with egr_spec the value get_field returned. With
\* several destinations the first one is not the last, and line 106 reads
\* parse_packet, a name that is not defined: NameError, before anything is
\* appended. With one destination the replicant is the packet itself.
ProcessStart(t, egr_spec) ==
    /\ producer[t].pc = "idle"
    /\ producer[t].sent < PacketsPerProducer
    /\ LET dest_ports == map_egress_spec(egr_spec)
           returns == \/ dest_ports.raised
                      \/ dest_ports.dest = <<>>
                      \/ Len(dest_ports.dest) > 1
       IN  producer' = [producer EXCEPT
               ![t].sent = @ + 1,
               ![t].pc = IF returns THEN "idle" ELSE "append",
               ![t].port = IF returns THEN 0 ELSE dest_ports.dest[1][1],
               ![t].queue = IF returns THEN 0 ELSE dest_ports.dest[1][2]]
    /\ UNCHANGED <<queues, cond_var, event, running, worker, enqueued, handed>>

\* process() lines 107-111: enter cond_var and append; an index outside the
\* lists raises IndexError and the with statement releases cond_var
ProcessAppend(t) ==
    /\ producer[t].pc = "append"
    /\ cond_var = Free
    /\ LET port == producer[t].port
           queue == producer[t].queue
           replicant == PacketOf(t, producer[t].sent)
       IN  IF port + 1 > Len(queues) \/ queue + 1 > Len(queues[port + 1])
           THEN /\ producer' = [producer EXCEPT ![t].pc = "idle"]
                /\ UNCHANGED <<queues, cond_var, enqueued>>
           ELSE /\ queues' = [queues EXCEPT ![port + 1][queue + 1] =
                                                Append(@, replicant)]
                /\ enqueued' = Append(enqueued, [packet |-> replicant,
                                                 port |-> port,
                                                 queue |-> queue])
                /\ cond_var' = t
                /\ producer' = [producer EXCEPT ![t].pc = "set"]
    /\ UNCHANGED <<event, running, worker, handed>>

\* process() line 112, then leave cond_var
ProcessSet(t) ==
    /\ producer[t].pc = "set"
    /\ event' = TRUE
    /\ cond_var' = Free
    /\ producer' = [producer EXCEPT ![t].pc = "idle"]
    /\ UNCHANGED <<queues, running, worker, enqueued, handed>>

\* run() line 116: while self.running
RunTop ==
    /\ worker.pc = "top"
    /\ worker' = [worker EXCEPT !.pc = IF running THEN "wait" ELSE "exited"]
    /\ UNCHANGED <<queues, cond_var, event, running, producer, enqueued,
                   handed>>

\* run() lines 118-120: self.event.wait(), then if not self.running: break
RunWait ==
    /\ worker.pc = "wait"
    /\ event
    /\ worker' = [worker EXCEPT !.pc = IF running THEN "scan" ELSE "exited"]
    /\ UNCHANGED <<queues, cond_var, event, running, producer, enqueued,
                   handed>>

\* run() line 134: for queue in reversed(range(self.q_per_port))
RECURSIVE ScanQueues(_, _, _)
ScanQueues(qs, port, queue) ==
    IF queue < 0 THEN None
    ELSE IF Len(qs[port + 1][queue + 1]) > 0 THEN queue
    ELSE ScanQueues(qs, port, queue - 1)

\* run() lines 130-142: for port_idx in range(self.port_count)
RECURSIVE ScanPorts(_, _, _)
ScanPorts(qs, last_port, port_idx) ==
    IF port_idx >= port_count THEN [found |-> FALSE, port |-> 0, queue |-> 0]
    ELSE LET port == (port_idx + last_port + 1) % port_count
             queue == ScanQueues(qs, port, q_per_port - 1)
         IN  IF queue # None
             THEN [found |-> TRUE, port |-> port, queue |-> queue]
             ELSE ScanPorts(qs, last_port, port_idx + 1)

\* a pop that leaves the packet in the list
Pop0_Keep(q) == [packet |-> Head(q), rest |-> q]

\* list.pop(): the last packet instead of the first
Pop0_Last(q) == [packet |-> q[Len(q)], rest |-> SubSeq(q, 1, Len(q) - 1)]

\* list.pop(0) (line 138): the packet and the list afterwards
Pop0(q) == [packet |-> Head(q), rest |-> Tail(q)]

\* packet.set_field("intrinsic_metadata.egress_port", port) (line 139) on a
\* packet constructed with the metadata of the instance: what
\* get_field("intrinsic_metadata.egress_port") returns afterwards
EgressPortRef == <<"intrinsic_metadata", "egress_port">>
egress_port_set(port) ==
    LET r == GetFieldOf(SetFieldOf(FreshPacket, <<>>, EgressPortRef,
                                   IntOf(port)).pkt,
                        <<>>, EgressPortRef)
    IN  IF r.none THEN None ELSE NatOf(r.value)

\* a pass that leaves the egress port of the packet as it was
RunScan_NoStamp ==
    /\ worker.pc = "scan"
    /\ cond_var = Free
    /\ cond_var' = Worker
    /\ LET s == ScanPorts(queues, worker.last_port, 0)
       IN  IF s.found
           THEN LET popped == Pop0(queues[s.port + 1][s.queue + 1])
                IN  /\ queues' = [queues EXCEPT ![s.port + 1][s.queue + 1] =
                                                    popped.rest]
                    /\ worker' = [worker EXCEPT !.pc = "leave",
                                                !.packet = popped.packet,
                                                !.port = s.port,
                                                !.queue = s.queue,
                                                !.last_port = s.port]
           ELSE /\ worker' = [worker EXCEPT !.pc = "leave", !.packet = 0]
                /\ UNCHANGED queues
    /\ UNCHANGED <<event, running, producer, enqueued, handed>>

\* run() lines 123-142: enter cond_var and make one pass; the packet popped
\* gets its egress port before the with statement ends
RunScan ==
    /\ worker.pc = "scan"
    /\ cond_var = Free
    /\ cond_var' = Worker
    /\ LET s == ScanPorts(queues, worker.last_port, 0)
       IN  IF s.found
           THEN LET popped == Pop0(queues[s.port + 1][s.queue + 1])
                IN  /\ queues' = [queues EXCEPT ![s.port + 1][s.queue + 1] =
                                                    popped.rest]
                    /\ worker' = [worker EXCEPT
                                      !.pc = "leave",
                                      !.packet = popped.packet,
                                      !.port = s.port,
                                      !.queue = s.queue,
                                      !.last_port = s.port,
                                      !.egress_port = egress_port_set(s.port)]
           ELSE /\ worker' = [worker EXCEPT !.pc = "leave", !.packet = 0]
                /\ UNCHANGED queues
    /\ UNCHANGED <<event, running, producer, enqueued, handed>>

\* a run() that is still inside cond_var when it goes on
RunLeave_Keep ==
    /\ worker.pc = "leave"
    /\ worker' = [worker EXCEPT
                      !.pc = IF worker.packet # 0 THEN "hand" ELSE "clear"]
    /\ UNCHANGED <<queues, cond_var, event, running, producer, enqueued,
                   handed>>

\* run() lines 142-148: leave cond_var; if packet, go on to hand it over,
\* else break out of the inner loop
RunLeave ==
    /\ worker.pc = "leave"
    /\ cond_var' = Free
    /\ worker' = [worker EXCEPT
                      !.pc = IF worker.packet # 0 THEN "hand" ELSE "clear"]
    /\ UNCHANGED <<queues, event, running, producer, enqueued, handed>>

\* run() lines 143-146: hand the packet on, outside cond_var, with the
\* egress port it was given at line 139
RunHand ==
    /\ worker.pc = "hand"
    /\ handed' = IF next_processor_set
                 THEN Append(handed, [packet |-> worker.packet,
                                      egress_port |-> worker.egress_port,
                                      port |-> worker.port,
                                      queue |-> worker.queue])
                 ELSE handed
    /\ worker' = [worker EXCEPT !.pc = "scan", !.packet = 0,
                                !.egress_port = None]
    /\ UNCHANGED <<queues, cond_var, event, running, producer, enqueued>>

\* run() lines 145-146 when next_processor is a pipeline: Pipeline.process
\* calls Table.process_packet (pipeline.py line 124), whose body runs inside
\* the cond_var of the table (table.py line 57)
HandEnterTable ==
    /\ worker.pc = "hand"
    /\ table_cond_var = 0
    /\ table_cond_var' = Worker
    /\ worker' = [worker EXCEPT !.pc = "hand_table"]
    /\ UNCHANGED <<queues, cond_var, event, running, producer, enqueued,
                   handed>>

\* the lookup of the pipeline ends (table.py line 76), the pipeline and
\* next_processor.process return
HandLeaveTable ==
    /\ worker.pc = "hand_table"
    /\ table_cond_var' = 0
    /\ handed' = Append(handed, [packet |-> worker.packet,
                                 egress_port |-> worker.egress_port,
                                 port |-> worker.port,
                                 queue |-> worker.queue])
    /\ worker' = [worker EXCEPT !.pc = "scan", !.packet = 0,
                                !.egress_port = None]
    /\ UNCHANGED <<queues, cond_var, event, running, producer, enqueued>>

\* run() line 151: self.event.clear(), outside cond_var
RunClear ==
    /\ worker.pc = "clear"
    /\ event' = FALSE
    /\ worker' = [worker EXCEPT !.pc = "top"]
    /\ UNCHANGED <<queues, cond_var, running, producer, enqueued, handed>>

\* kill() (lines 155-162)
Kill ==
    /\ running
    /\ running' = FALSE
    /\ event' = TRUE
    /\ UNCHANGED <<queues, cond_var, producer, worker, enqueued, handed>>

\* kill() line 161, called by thread t: self.running = False
KillStore(t) ==
    /\ thread[t].pc = "idle"
    /\ running
    /\ running' = FALSE
    /\ thread' = [thread EXCEPT ![t].pc = "event_set"]
    /\ UNCHANGED <<queues, cond_var, event, producer, worker, enqueued, handed>>

\* a kill() that does not set the event
KillSet_NoSignal(t) ==
    /\ thread[t].pc = "event_set"
    /\ thread' = [thread EXCEPT ![t] = IdleThread]
    /\ UNCHANGED <<queues, cond_var, event, running, producer, worker,
                   enqueued, handed>>

\* kill() line 162: self.event.set()
KillSet(t) ==
    /\ thread[t].pc = "event_set"
    /\ event' = TRUE
    /\ thread' = [thread EXCEPT ![t] = IdleThread]
    /\ UNCHANGED <<queues, cond_var, running, producer, worker, enqueued,
                   handed>>

\* process(parsed_packet) for one of these packets; offered records the
\* packet, whether an action set its egress specification, what get_field
\* returned and the destinations the multicast map holds for it
Offer(t, o) ==
    /\ ProcessStart(t, o.egr_spec)
    /\ offered' = Append(offered,
           [packet |-> PacketOf(t, producer[t].sent + 1),
            set |-> o.set,
            egr_spec |-> o.egr_spec,
            dest |-> McEntry(multicast_map, o.egr_spec.lo)])

\* map_egress_spec(egress_spec) called on its own
MapEgressSpec(egress_spec) ==
    /\ mapped' = [called |-> TRUE, egress_spec |-> egress_spec,
                  raised |-> map_egress_spec(egress_spec).raised,
                  dest |-> map_egress_spec(egress_spec).dest]
    /\ UNCHANGED <<queues, cond_var, event, running, producer, worker,
                   enqueued, handed, multicast_map, offered>>

CodecIdle ==
    /\ width = 0 /\ offset = 0 /\ value = <<>> /\ byte_list = <<>>
    /\ field_value = <<>> /\ codec_pc = "idle"

\* no ParsedPacket has been constructed yet (id_next = 0, line 75)
PacketInit ==
    /\ id_next = 0 /\ packets = <<>> /\ maps = <<>> /\ last = NoCall
    /\ before = [id_next |-> 0, packets |-> <<>>, maps |-> <<>>,
                 packet_count |-> 0, byte_count |-> 0]
    /\ calls = 0

\* one more call, while the bound on the length of a run allows it
Counted ==
    /\ calls < MaxCalls /\ calls' = calls + 1
    /\ before' = [id_next |-> id_next, packets |-> packets, maps |-> maps,
                  packet_count |-> packet_count, byte_count |-> byte_count]

ConstructStep ==
    /\ Counted /\ UNCHANGED <<codec_vars, table_vars, tm_vars, thread>>
    /\ \E b \in Buffers : Construct(b)
ParseHeaderStep ==
    /\ Counted /\ UNCHANGED <<codec_vars, table_vars, tm_vars, thread>>
    /\ \E p \in PacketIds, h \in HeaderNames : parse_header(p, h)
SetFieldStep ==
    /\ Counted /\ UNCHANGED <<codec_vars, table_vars, tm_vars, thread>>
    /\ \E p \in PacketIds, ref \in FieldRefs, v \in SetValues :
            set_field(p, ref, v)
AddHeaderBeforeStep ==
    /\ Counted /\ UNCHANGED <<codec_vars, table_vars, tm_vars, thread>>
    /\ \E p \in PacketIds, h \in HeaderNames, a \in HeaderNames :
            add_header_before(p, h, a)
AddHeaderAfterStep ==
    /\ Counted /\ UNCHANGED <<codec_vars, table_vars, tm_vars, thread>>
    /\ \E p \in PacketIds, h \in HeaderNames, a \in HeaderNames :
            add_header_after(p, h, a)
RemoveHeaderStep ==
    /\ Counted /\ UNCHANGED <<codec_vars, table_vars, tm_vars, thread>>
    /\ \E p \in PacketIds, h \in HeaderNames : remove_header(p, h)
ReplicateStep ==
    /\ Counted /\ UNCHANGED <<codec_vars, table_vars, tm_vars, thread>>
    /\ \E p \in PacketIds : replicate(p)

\* the state after construction: no packet yet, an empty table, a traffic
\* manager with empty queues, the codec test not started
Init == CodecIdle /\ PacketInit /\ ThreadInit /\ TableInit /\ TMInit

\* packets that are only constructed and parsed
ParseNext == ConstructStep \/ ParseHeaderStep

SpecParse ==
    Init /\ [][ParseNext]_vars

\* field references as get_field and set_field split them at ".": the
\* fields of the headers and of the metadata, a header no packet has
\* ("ipv4.version", lines 359-363), a reference without "." and one with two
AnyRefs ==
    FieldRefs \cup {<<"intrinsic_metadata", "egress_port">>,
                    <<"ipv4", "version">>, <<"ethertype">>,
                    <<"vlan", "vid", "x">>}

GetFieldStep ==
    /\ Counted /\ UNCHANGED <<codec_vars, table_vars, tm_vars, thread>>
    /\ \E p \in PacketIds, ref \in AnyRefs : GetField(p, ref)
SetAnyFieldStep ==
    /\ Counted /\ UNCHANGED <<codec_vars, table_vars, tm_vars, thread>>
    /\ \E p \in PacketIds, ref \in AnyRefs : set_field(p, ref, IntOf(5))

\* packets that are constructed, parsed, read and written by reference
RefNext ==
    \/ ConstructStep
    \/ ParseHeaderStep
    \/ GetFieldStep
    \/ SetAnyFieldStep

SpecRefs == Init /\ [][RefNext]_vars

\* a header-valid check names a header and no field (parser.py lines
\* 247-250): the headers of the model and a header no packet has
BareRefs == {<<h>> : h \in HeaderNames} \cup {<<"foo">>}

IngressStep ==
    /\ Counted /\ UNCHANGED <<codec_vars, table_vars, tm_vars, thread>>
    /\ \E packet \in IngressBuffers : ProcessPacket(packet)
GetBareFieldStep ==
    /\ Counted /\ UNCHANGED <<codec_vars, table_vars, tm_vars, thread>>
    /\ \E p \in PacketIds, ref \in BareRefs : GetField(p, ref)

\* packets that ingress through the parser and are then read
ParserNext ==
    \/ IngressStep
    \/ GetBareFieldStep
    \/ GetFieldStep

SpecParser == Init /\ [][ParserNext]_vars

\* every operation of ParsedPacket
PacketNext ==
    \/ ConstructStep
    \/ ParseHeaderStep
    \/ SetFieldStep
    \/ AddHeaderBeforeStep
    \/ AddHeaderAfterStep
    \/ RemoveHeaderStep
    \/ ReplicateStep

SpecPacket ==
    Init /\ [][PacketNext]_vars

AddEntryStep ==
    /\ Counted /\ UNCHANGED <<codec_vars, tm_vars, thread, table_cond_var>>
    /\ \/ \E entry \in EntrySet : add_entry(entry, FALSE)
       \/ \E entry \in DefaultEntrySet : add_entry(entry, TRUE)
ClearStep ==
    /\ Counted /\ UNCHANGED <<codec_vars, tm_vars, thread, table_cond_var>>
    /\ \E clear_stats \in BOOLEAN, clear_default \in BOOLEAN :
            clear(clear_stats, clear_default)
ProcessPacketStep ==
    /\ Counted /\ UNCHANGED <<codec_vars, tm_vars, thread, table_cond_var>>
    /\ \E p \in PacketIds : process_packet(p)

\* a table that packets are constructed, parsed and looked up for
TableNext ==
    \/ ConstructStep
    \/ ParseHeaderStep
    \/ AddEntryStep
    \/ ClearStep
    \/ ProcessPacketStep

SpecTable ==
    Init /\ [][TableNext]_vars

\* table_entry.py __main__ (lines 150-170): entries checked against packets
\* that are parsed and whose ethertype is set. The entries: the exact and the
\* ternary entry of lines 150-154; a ternary entry without a mask; entries
\* whose key names a field that its header does not have, or a header the
\* packet may not have; an entry with two keys.
EthertypeRef == <<"ethertype", "ethertype">>
MatchEntries ==
    {TableEntryExact(<<Match(EthertypeRef, IntOf(7))>>, "some_action", <<>>),
     TableEntryTernary(<<Masked(EthertypeRef, IntOf(7), IntOf(7))>>,
                       "some_action", <<>>, 17),
     TableEntryTernary(<<Match(EthertypeRef, IntOf(23))>>,
                       "some_action", <<>>, 17),
     TableEntryExact(<<Match(<<"ethertype", "length">>, IntOf(0))>>,
                     "some_action", <<>>),
     TableEntryTernary(<<Match(<<"ethertype", "length">>, IntOf(0))>>,
                       "some_action", <<>>, 17),
     TableEntryExact(<<Match(<<"vlan", "vid">>, IntOf(356))>>,
                     "some_action", <<>>),
     TableEntryExact(<<Match(EthertypeRef, IntOf(23)),
                       Match(<<"vlan", "pcp">>, IntOf(5))>>,
                     "some_action", <<>>),
     TableEntryTernary(<<Masked(EthertypeRef, IntOf(23), IntOf(16)),
                         Masked(<<"vlan", "vid">>, IntOf(100), IntOf(15))>>,
                       "some_action", <<>>, 17)}
\* line 164: ppkt.set_field("ethernet.ethertype", 0x17); also 0x07 and 0x08
EthertypeValues == {IntOf(23), IntOf(7), IntOf(8)}

SetEthertypeStep ==
    /\ Counted /\ UNCHANGED <<codec_vars, table_vars, tm_vars, thread>>
    /\ \E p \in PacketIds, v \in EthertypeValues : set_field(p, EthertypeRef, v)
CheckMatchStep ==
    /\ Counted /\ UNCHANGED <<codec_vars, table_vars, tm_vars, thread>>
    /\ \E entry \in MatchEntries, p \in PacketIds : CheckMatch(entry, p)

MatchNext ==
    \/ ConstructStep
    \/ ParseHeaderStep
    \/ SetEthertypeStep
    \/ CheckMatchStep

SpecMatch == Init /\ [][MatchNext]_vars

ProcessStartStep ==
    /\ UNCHANGED <<codec_vars, packet_vars, table_vars, tm_aux, thread>>
    /\ \E t \in Producers, egr_spec \in EgressSpecs : ProcessStart(t, egr_spec)
ProcessAppendStep ==
    /\ UNCHANGED <<codec_vars, packet_vars, table_vars, tm_aux, thread>>
    /\ \E t \in Producers : ProcessAppend(t)
ProcessSetStep ==
    /\ UNCHANGED <<codec_vars, packet_vars, table_vars, tm_aux, thread>>
    /\ \E t \in Producers : ProcessSet(t)
RunTopStep ==
    /\ RunTop
    /\ UNCHANGED <<codec_vars, packet_vars, table_vars, tm_aux, thread>>
RunWaitStep ==
    /\ RunWait
    /\ UNCHANGED <<codec_vars, packet_vars, table_vars, tm_aux, thread>>
RunScanStep ==
    /\ RunScan
    /\ UNCHANGED <<codec_vars, packet_vars, table_vars, tm_aux, thread>>
RunLeaveStep ==
    /\ RunLeave
    /\ UNCHANGED <<codec_vars, packet_vars, table_vars, tm_aux, thread>>
RunHandStep ==
    /\ RunHand
    /\ UNCHANGED <<codec_vars, packet_vars, table_vars, tm_aux, thread>>
RunClearStep ==
    /\ RunClear
    /\ UNCHANGED <<codec_vars, packet_vars, table_vars, tm_aux, thread>>
KillStep ==
    /\ Kill
    /\ UNCHANGED <<codec_vars, packet_vars, table_vars, tm_aux, thread>>

\* the callers of process(), the thread of run() and kill()
TMNext ==
    \/ ProcessStartStep
    \/ ProcessAppendStep
    \/ ProcessSetStep
    \/ RunTopStep
    \/ RunWaitStep
    \/ RunScanStep
    \/ RunLeaveStep
    \/ RunHandStep
    \/ RunClearStep
    \/ KillStep

SpecTM == Init /\ [][TMNext]_vars

\* the egress specifications of the queues run() scans
ServedSpecs ==
    {EgressSpec(q, port) : port \in 0..(port_count - 1),
                           q \in 0..(q_per_port - 1)}

ProcessServedStep ==
    /\ UNCHANGED <<codec_vars, packet_vars, table_vars, tm_aux, thread>>
    /\ \E egr_spec \in ServedSpecs : ProcessStart(1, egr_spec)
KillStoreStep ==
    /\ UNCHANGED <<codec_vars, packet_vars, table_vars, tm_aux>>
    /\ \E t \in Threads : KillStore(t)
KillSetStep ==
    /\ UNCHANGED <<codec_vars, packet_vars, table_vars, tm_aux>>
    /\ \E t \in Threads : KillSet(t)

\* one caller of process() with packets for the served queues, the thread
\* of run(), and a thread that calls kill()
TMLiveNext ==
    \/ ProcessServedStep
    \/ ProcessAppendStep
    \/ ProcessSetStep
    \/ RunTopStep
    \/ RunWaitStep
    \/ RunScanStep
    \/ RunLeaveStep
    \/ RunHandStep
    \/ RunClearStep
    \/ KillStoreStep
    \/ KillSetStep

\* Every thread that can run does run: the thread of run() takes its next
\* step unless it is blocked in event.wait() or at the with statement, a
\* caller that has reached the with statement of process() goes through it,
\* and the thread inside kill() finishes it. Nothing obliges a caller to
\* bring another packet or a thread to call kill().
TMFairness ==
    /\ WF_vars(RunTopStep)
    /\ WF_vars(RunWaitStep)
    /\ WF_vars(RunScanStep)
    /\ WF_vars(RunLeaveStep)
    /\ WF_vars(RunHandStep)
    /\ WF_vars(RunClearStep)
    /\ WF_vars(ProcessAppendStep)
    /\ WF_vars(ProcessSetStep)
    /\ WF_vars(KillSetStep)

SpecTMLive == Init /\ [][TMLiveNext]_vars /\ TMFairness

SetMulticastMapStep ==
    /\ SetMulticastMap
    /\ UNCHANGED <<codec_vars, packet_vars, table_vars, offered, mapped, thread>>
OfferStep ==
    /\ UNCHANGED <<codec_vars, packet_vars, table_vars, multicast_map, mapped,
                   thread>>
    /\ \E t \in Producers, o \in Offers : Offer(t, o)

\* a configured manager that is not killed: packets as the pipeline leaves
\* them, and the thread of run()
EgressNext ==
    \/ SetMulticastMapStep
    \/ OfferStep
    \/ ProcessAppendStep
    \/ ProcessSetStep
    \/ RunTopStep
    \/ RunWaitStep
    \/ RunScanStep
    \/ RunLeaveStep
    \/ RunHandStep
    \/ RunClearStep

SpecEgress == Init /\ [][EgressNext]_vars

\* egress specifications map_egress_spec is called with: upper and lower
\* halves around bit 28 (hi = 4096), bit 31 (hi = 32768) and the drop value
DecodeHi == {0, 1, 2, 4095, 4096, 8192, 16384, 28671, 32767, 32768, 32769,
             36864, 61439, 65535}
DecodeLo == {0, 1, 2, 255, 256, 32768, 65534, 65535}

MapEgressSpecStep ==
    /\ UNCHANGED <<codec_vars, packet_vars, table_vars, thread>>
    /\ \E hi \in DecodeHi, lo \in DecodeLo : MapEgressSpec(EgressSpec(hi, lo))

DecodeNext == MapEgressSpecStep

SpecDecode == Init /\ [][DecodeNext]_vars

TableCallStep ==
    /\ Counted /\ UNCHANGED <<codec_vars, tm_vars>>
    /\ \E t \in Threads :
          \/ \E p \in PacketIds :
                TableCall(t, "process_packet", p, NoEntry, FALSE, FALSE)
          \/ \E entry \in EntrySet :
                TableCall(t, "add_entry", 0, entry, FALSE, FALSE)
          \/ \E entry \in DefaultEntrySet :
                TableCall(t, "set_default_entry", 0, entry, FALSE, FALSE)
          \/ \E clear_stats \in BOOLEAN, clear_default \in BOOLEAN :
                TableCall(t, "clear", 0, NoEntry, clear_stats, clear_default)
WithCondVarStep ==
    /\ UNCHANGED <<codec_vars, tm_vars, before, calls>>
    /\ \E t \in Threads : WithCondVar(t)
LookupScanStep ==
    /\ UNCHANGED <<codec_vars, tm_vars, before, calls>>
    /\ \E t \in Threads : LookupScan(t)
LookupCountStep ==
    /\ UNCHANGED <<codec_vars, tm_vars, before, calls>>
    /\ \E t \in Threads : LookupCount(t)
LookupDefaultStep ==
    /\ UNCHANGED <<codec_vars, tm_vars, before, calls>>
    /\ \E t \in Threads : LookupDefault(t)
LookupEvalStep ==
    /\ UNCHANGED <<codec_vars, tm_vars, before, calls>>
    /\ \E t \in Threads : LookupEval(t)
AddEntryAppendStep ==
    /\ UNCHANGED <<codec_vars, tm_vars, before, calls>>
    /\ \E t \in Threads : AddEntryAppend(t)
SetDefaultStoreStep ==
    /\ UNCHANGED <<codec_vars, tm_vars, before, calls>>
    /\ \E t \in Threads : SetDefaultStore(t)
ClearStatsStep ==
    /\ UNCHANGED <<codec_vars, tm_vars, before, calls>>
    /\ \E t \in Threads : ClearStats(t)
ClearEntriesStep ==
    /\ UNCHANGED <<codec_vars, tm_vars, before, calls>>
    /\ \E t \in Threads : ClearEntries(t)
ClearDefaultStep ==
    /\ UNCHANGED <<codec_vars, tm_vars, before, calls>>
    /\ \E t \in Threads : ClearDefault(t)

IngressBuffersStep ==
    /\ Counted /\ UNCHANGED <<codec_vars, table_vars, tm_vars, thread>>
    /\ \E packet \in Buffers : ProcessPacket(packet)

\* packets ingress through the parser while threads look them up in the
\* table and update the table
TableThreadsNext ==
    \/ IngressBuffersStep
    \/ TableCallStep
    \/ WithCondVarStep
    \/ LookupScanStep
    \/ LookupCountStep
    \/ LookupDefaultStep
    \/ LookupEvalStep
    \/ AddEntryAppendStep
    \/ SetDefaultStoreStep
    \/ ClearStatsStep
    \/ ClearEntriesStep
    \/ ClearDefaultStep

SpecTableThreads == Init /\ [][TableThreadsNext]_vars

\* a thread of the switch takes a packet through the pipeline in front of
\* the traffic manager: Pipeline.process calls Table.process_packet
\* (pipeline.py line 124) and, once the lookups have returned,
\* next_processor.process (line 148), the process() of the manager
PipelineLookupStep ==
    /\ Counted /\ UNCHANGED <<codec_vars, tm_vars>>
    /\ producer[1].pc = "idle"
    /\ \E p \in PacketIds :
          TableCall(1, "process_packet", p, NoEntry, FALSE, FALSE)
PipelineNextStep ==
    /\ UNCHANGED <<codec_vars, packet_vars, table_vars, tm_aux, thread>>
    /\ thread[1].pc = "idle"
    /\ \E egr_spec \in ServedSpecs : ProcessStart(1, egr_spec)
HandEnterTableStep ==
    /\ HandEnterTable
    /\ UNCHANGED <<codec_vars, packet_vars, entries, default_entry,
                   byte_count, packet_count, tm_aux, thread>>
HandLeaveTableStep ==
    /\ HandLeaveTable
    /\ UNCHANGED <<codec_vars, packet_vars, entries, default_entry,
                   byte_count, packet_count, tm_aux, thread>>

\* a pipeline with a table on either side of the traffic manager: a thread
\* of the switch looks packets up and brings them to process(), the thread
\* of run() hands them to the pipeline behind the manager
LocksNext ==
    \/ IngressBuffersStep
    \/ PipelineLookupStep
    \/ WithCondVarStep
    \/ LookupScanStep
    \/ LookupDefaultStep
    \/ LookupEvalStep
    \/ PipelineNextStep
    \/ ProcessAppendStep
    \/ ProcessSetStep
    \/ RunTopStep
    \/ RunWaitStep
    \/ RunScanStep
    \/ RunLeaveStep
    \/ HandEnterTableStep
    \/ HandLeaveTableStep
    \/ RunClearStep

SpecLocks == Init /\ [][LocksNext]_vars

PipelineStartStep ==
    /\ Counted /\ UNCHANGED <<codec_vars, tm_vars>>
    /\ \E t \in Threads, p \in PacketIds, control_flow \in ControlFlows :
          PipelineStart(t, p, control_flow)
PipelineIterationStep ==
    /\ UNCHANGED <<codec_vars, tm_vars, before, calls>>
    /\ \E t \in Threads : PipelineIteration(t)
PipelineExitStep ==
    /\ UNCHANGED <<codec_vars, tm_vars, before, calls>>
    /\ \E t \in Threads : PipelineExit(t)

\* packets ingress, entries and default entries are added, and threads take
\* the packets through pipelines
PipelineNext ==
    \/ IngressBuffersStep
    \/ AddEntryStep
    \/ PipelineStartStep
    \/ PipelineIterationStep
    \/ PipelineExitStep

SpecPipeline == Init /\ [][PipelineNext]_vars

\* packets ingress and threads take them through pipelines whose tables have
\* no entries; a thread that is inside Pipeline.process keeps running
PipelineLiveNext ==
    \/ IngressBuffersStep
    \/ PipelineStartStep
    \/ PipelineIterationStep
    \/ PipelineExitStep

PipelineFairness ==
    \A t \in Threads :
        /\ WF_vars(UNCHANGED <<codec_vars, tm_vars, before, calls>>
                       /\ PipelineIteration(t))
        /\ WF_vars(UNCHANGED <<codec_vars, tm_vars, before, calls>>
                       /\ PipelineExit(t))

SpecPipelineLive == Init /\ [][PipelineLiveNext]_vars /\ PipelineFairness

\* the graphs pipelines are constructed from: up to MaxEdges edges between
\* the tables and to exit_control_flow, with and without an action attribute
MaxEdges == 2
GraphActions == {"", "always", "miss"}
GraphEdges ==
    {GraphEdge(src, dst, action) :
        src \in TableNames, dst \in TableNames \cup {"exit_control_flow"},
        action \in GraphActions}
Graphs == UNION {[1..n -> GraphEdges] : n \in 0..MaxEdges}

NewPipelineStep ==
    /\ UNCHANGED <<codec_vars, table_vars, tm_vars, thread>>
    /\ UNCHANGED <<id_next, packets, maps, before, calls>>
    /\ \E edge_list \in Graphs : NewPipeline(edge_list)

SpecControlFlow == Init /\ [][NewPipelineStep]_vars

\* the value sets of the instance, the edges a parse state may have, and the
\* select values next_state is called with: None, the two specific values
\* and a value that only a value set holds
all_value_sets == [vs1 |-> {33024, 8}, vs2 |-> {65298}]
MaxParserEdges == 3
ParserEdges ==
    {ParserEdge("parse_vlan", "value", 33024, ""),
     ParserEdge("parse_flags", "value", 33024, ""),
     ParserEdge("parse_flags", "value", 65298, ""),
     ParserEdge("parse_flags", "in_value_set", 0, "vs1"),
     ParserEdge("parse_vlan", "not_in_value_set", 0, "vs2"),
     ParserEdge("parse_vlan", "", 0, "")}
ParserGraphs == UNION {[1..n -> ParserEdges] : n \in 0..MaxParserEdges}
SelectValues ==
    {[none |-> TRUE, value |-> <<>>]} \cup
    {[none |-> FALSE, value |-> IntOf(n)] : n \in {33024, 65298, 8}}

NextStateStep ==
    /\ UNCHANGED <<codec_vars, table_vars, tm_vars, thread>>
    /\ UNCHANGED <<id_next, packets, maps, before, calls>>
    /\ \E edges \in ParserGraphs, select_value \in SelectValues :
          NextState(edges, select_value)

SpecNextState == Init /\ [][NextStateStep]_vars

-----------------------------------------------------------------------------
(* action.py: Action and the primitive actions *)

\* A primitive call of an action's implementation. An operand is a field
\* reference <<hdr, fld>> or the name of an action parameter <<name>>; the
\* number of add_to_field is the int made of its string (lines 95-96).
Primitive(name) ==
    [name |-> name, destination |-> <<>>, source |-> <<>>,
     field_name |-> <<>>, number |-> <<>>, header_ref |-> ""]
ModifyField(destination, source) ==
    [Primitive("ModifyField") EXCEPT !.destination = destination,
                                     !.source = source]
AddToField(field_name, number) ==
    [Primitive("AddToField") EXCEPT !.field_name = field_name,
                                    !.number = number]
AddHeader(header_ref) ==
    [Primitive("AddHeader") EXCEPT !.header_ref = header_ref]
RemoveHeader(header_ref) ==
    [Primitive("RemoveHeader") EXCEPT !.header_ref = header_ref]

\* Action.__init__ lines 163-164: the parameters of the primitive calls that
\* name a field or an action parameter. The others (a number, a header
\* name) hold no "." and are no action parameter: get_field returns None for
\* them and they never enter the value map.
ParamRefs(primitives) ==
    UNION {{primitives[i].destination, primitives[i].source,
            primitives[i].field_name} : i \in 1..Len(primitives)} \ {<<>>}

\* the actions of the model: set_egress with its parameter, two that read
\* and write the same fields in two primitives, and two that add and remove
\* the vlan header
Actions ==
    {[name |-> "set_egress", param_list |-> {"egress"},
      primitives |-> <<ModifyField(EgressRef, <<"egress">>)>>],
     [name |-> "swap", param_list |-> {},
      primitives |-> <<ModifyField(EgressRef, EgressPortRef),
                       ModifyField(EgressPortRef, EgressRef)>>],
     [name |-> "set_and_add", param_list |-> {},
      primitives |-> <<ModifyField(EgressRef, EgressPortRef),
                       AddToField(EgressRef, IntOf(1))>>],
     [name |-> "push_vlan", param_list |-> {},
      primitives |-> <<AddHeader("vlan")>>],
     [name |-> "pop_vlan", param_list |-> {},
      primitives |-> <<RemoveHeader("vlan")>>]}

\* the action_params of a table entry, a dict kept as a sequence of
\* <<name, value>>
ActionParams == {<<>>, <<<<"egress", IntOf(2)>>>>}
ParamNames(action_params) ==
    {action_params[i][1] : i \in 1..Len(action_params)}
ParamValue(action_params, name) ==
    action_params[CHOOSE i \in 1..Len(action_params) :
                     action_params[i][1] = name][2]

\* Action.eval lines 175-182: values, the action parameters and, for every
\* other reference, what get_field returns for it before any primitive has
\* run; none marks a reference that is not a key of values
ActionValues(param_refs, pkt, m, action_params) ==
    [ref \in param_refs |->
        IF Len(ref) = 1 /\ ref[1] \in ParamNames(action_params)
        THEN [none |-> FALSE, value |-> ParamValue(action_params, ref[1])]
        ELSE GetFieldOf(pkt, m, ref)]

\* eval(parsed_packet, value_map) of one primitive.
\* IriPrimitiveModifyField.eval (lines 29-48) without a mask sets the
\* destination to value_map[source], KeyError if source is no key.
\* IriPrimitiveAddToField.eval (lines 101-113) reads the field with
\* parsed_packet.get_field, not from value_map; None fails at line 111.
\* IriPrimitiveAddHeader.eval (lines 58-67) calls parsed_packet.add_header,
\* a method ParsedPacket does not have: AttributeError.
\* IriPrimitiveRemoveHeader.eval (lines 77-86) is a pass statement.
PrimitiveEval(prim, pkt, m, value_map) ==
    LET Fails == [raised |-> TRUE, pkt |-> pkt, map |-> m]
        Set(r) == [raised |-> FALSE, pkt |-> r.pkt, map |-> r.map]
        AddTo(old) ==
            IF old.none THEN Fails
            ELSE Set(SetFieldOf(pkt, m, prim.field_name,
                                Add(old.value, prim.number)))
    IN  IF prim.name = "ModifyField"
        THEN IF value_map[prim.source].none THEN Fails
             ELSE Set(SetFieldOf(pkt, m, prim.destination,
                                 value_map[prim.source].value))
        ELSE IF prim.name = "AddToField"
        THEN AddTo(GetFieldOf(pkt, m, prim.field_name))
        ELSE IF prim.name = "AddHeader" THEN Fails
        ELSE [raised |-> FALSE, pkt |-> pkt, map |-> m]

\* Action.eval lines 185-186: the primitives in order, each with the same
\* value map; an exception leaves the packet as the earlier primitives
\* made it
RECURSIVE EvalPrimitives(_, _, _, _)
EvalPrimitives(primitives, pkt, m, value_map) ==
    IF primitives = <<>> THEN [raised |-> FALSE, pkt |-> pkt, map |-> m]
    ELSE LET Rest(r) ==
                 IF r.raised THEN r
                 ELSE EvalPrimitives(Tail(primitives), r.pkt, r.map,
                                     value_map)
         IN  Rest(PrimitiveEval(primitives[1], pkt, m, value_map))

\* Action.eval (lines 166-186) on a packet record and its header map
ActionEvalOf(action, pkt, m, action_params) ==
    IF ParamNames(action_params) # action.param_list
    THEN [raised |-> TRUE, pkt |-> pkt, map |-> m]
    ELSE EvalPrimitives(action.primitives, pkt, m,
                        ActionValues(ParamRefs(action.primitives), pkt, m,
                                     action_params))

\* action.eval(parsed_packet, action_params) as a call on packet p
EvalAction(p, action, action_params) ==
    LET Done(r) ==
            /\ packets' = [packets EXCEPT ![p] = r.pkt]
            /\ maps' = [maps EXCEPT ![packets[p].header_map] = r.map]
            /\ last' = [Call("eval", p, action.name, "")
                           EXCEPT !.raised = r.raised,
                                  !.ret_none = ~r.raised]
    IN  /\ Done(ActionEvalOf(action, packets[p], HeaderMap(p), action_params))
        /\ UNCHANGED id_next

ActionEvalStep ==
    /\ Counted /\ UNCHANGED <<codec_vars, table_vars, tm_vars, thread>>
    /\ \E p \in PacketIds, action \in Actions,
           action_params \in ActionParams :
          EvalAction(p, action, action_params)

\* packets ingress through the parser and actions are applied to them
ActionNext ==
    \/ IngressBuffersStep
    \/ ActionEvalStep

SpecAction == Init /\ [][ActionNext]_vars

InitAssignIdStep ==
    /\ UNCHANGED <<codec_vars, table_vars, tm_vars, last, before, calls>>
    /\ \E t \in Threads, b \in Buffers : InitAssignId(t, b)
ReplicateAssignIdStep ==
    /\ UNCHANGED <<codec_vars, table_vars, tm_vars, last, before, calls>>
    /\ \E t \in Threads, p \in PacketIds : ReplicateAssignId(t, p)
IdNextLoadStep ==
    /\ UNCHANGED <<codec_vars, table_vars, tm_vars, last, before, calls>>
    /\ \E t \in Threads : IdNextLoad(t)
InitStoreIdStep ==
    /\ UNCHANGED <<codec_vars, table_vars, tm_vars, last, before, calls>>
    /\ \E t \in Threads : InitStoreId(t)
ReplicateStoreIdStep ==
    /\ UNCHANGED <<codec_vars, table_vars, tm_vars, last, before, calls>>
    /\ \E t \in Threads : ReplicateStoreId(t)

\* threads that construct and replicate packets at the same time
ThreadNext ==
    \/ InitAssignIdStep
    \/ ReplicateAssignIdStep
    \/ IdNextLoadStep
    \/ InitStoreIdStep
    \/ ReplicateStoreIdStep

SpecThreads == Init /\ [][ThreadNext]_vars

-----------------------------------------------------------------------------
(* field.py __main__, lines 262-295: the insert/extract round trip *)

MaxWidth == 32
MaxOffset == 31
ScratchLen == 8

\* values = range(16) + [0xaaaaaaaa, 0x55555555, 0xffffffff] (lines 262-263)
Alternating(first) == [i \in 1..32 |-> IF i % 2 = 1 THEN first ELSE 1 - first]
TestValues == {IntOf(n) : n \in 0..15}
                \cup {Trim(Alternating(0)), Trim(Alternating(1)),
                      [i \in 1..32 |-> 1]}

CodecInit ==
    /\ width \in 0..MaxWidth
    /\ offset \in 0..MaxOffset
    /\ \E v \in TestValues : value = MaskTo(v, width)
    /\ \E fill \in {0, 255} : byte_list = [i \in 1..ScratchLen |-> fill]
    /\ field_value = <<>>
    /\ codec_pc = "start"
    /\ PacketInit /\ ThreadInit /\ TableInit /\ TMInit

\* line 275 / 291: field.update_header_bytes(byte_list, offset)
CodecUpdate ==
    /\ codec_pc = "start"
    /\ LET r == update_header_bytes(width, value, byte_list, offset)
       IN  /\ byte_list' = r.bytes
           /\ codec_pc' = IF r.ok THEN "updated" ELSE "raised"
    /\ UNCHANGED <<width, offset, value, field_value>>
    /\ UNCHANGED <<packet_vars, table_vars, tm_vars, thread>>

\* line 277 / 292: field.extract(byte_list, 0, offset)
CodecExtract ==
    /\ codec_pc = "updated"
    /\ LET r == extract(width, Bytes(byte_list), 0, offset)
       IN  /\ field_value' = r.value
           /\ codec_pc' = IF r.ok THEN "extracted" ELSE "raised"
    /\ UNCHANGED <<width, offset, value, byte_list>>
    /\ UNCHANGED <<packet_vars, table_vars, tm_vars, thread>>

CodecNext == CodecUpdate \/ CodecExtract

SpecCodec == CodecInit /\ [][CodecNext]_vars

\* a field whose stored value need not fit its width: header.set_field (lines
\* 125-151) stores the integer as given and add_to_field (action.py line 111)
\* stores a sum, then update_header_bytes writes it
WideInit ==
    /\ width \in 0..MaxWidth
    /\ offset \in 0..MaxOffset
    /\ value \in TestValues
    /\ \E fill \in {0, 255} : byte_list = [i \in 1..ScratchLen |-> fill]
    /\ field_value = <<>>
    /\ codec_pc = "start"
    /\ PacketInit /\ ThreadInit /\ TableInit /\ TMInit

SpecCodecWide == WideInit /\ [][CodecNext]_vars

\* C4: for every width in [0,32], bit offset in [0,31] and value below
\* 2^width, update_header_bytes into an 8-byte scratch of all-zero or all-one
\* bytes followed by extract at the same offset completes and returns the
\* value.
C4_RoundTrip ==
    /\ codec_pc # "raised"
    /\ codec_pc = "extracted" => field_value = value

\* a 13-bit field with a set top bit that starts inside a byte and spans three
\* bytes of an all-one scratch has been inserted and extracted
C4_Witness ==
    /\ codec_pc = "extracted"
    /\ width = 13 /\ offset = 21
    /\ Len(value) = 13 /\ value[2] = 0
    /\ byte_list[1] = 255
    /\ field_value = value

-----------------------------------------------------------------------------
(* ParsedPacket: the claims *)

HeaderNamesOf(m) == [i \in 1..Len(m) |-> m[i].name]

\* the bytes the first k headers of a map serialize to
PrefixBytes(m, k, original) ==
    SerializeHeaders(SubSeq(m, 1, k), original,
                     [ok |-> TRUE, bytes |-> <<>>]).bytes

\* C3: a packet on which only parse_header has been called, with distinct
\* header names (each parsed header is still in the map, so header_length is
\* the sum of the map's header lengths) that fit in the buffer, serializes to
\* exactly the original buffer.
C3_ParseOnlySerialize ==
    \A p \in PacketIds :
        LET pkt == packets[p]
        IN  (/\ pkt.header_length = SumLengths(HeaderMap(p))
             /\ SumLengths(HeaderMap(p)) <= Len(pkt.original_packet))
            => serialize(p) = [ok |-> TRUE, bytes |-> pkt.original_packet]

\* three distinct headers have been parsed from the 6-byte buffer
C3_Witness ==
    /\ last.op = "parse_header" /\ ~last.raised
    /\ \E p \in PacketIds :
        /\ Len(HeaderMap(p)) = 3
        /\ packets[p].header_length = 5
        /\ packets[p].payload_offset = 5
        /\ Len(packets[p].original_packet) = 6

\* the packet the latest call was made on, as the call found it and left it
PacketBefore == before.packets[last.pkt]
MapBefore == before.maps[PacketBefore.header_map]
SerializeBefore == SerializeOf(PacketBefore, MapBefore)

\* C6: when add_header_after(name, descr, anchor) returns a length L,
\* serialize() grows by exactly L bytes, the new header's L zero bytes come
\* right after the anchor header's bytes, the other headers keep their
\* relative order, and the payload window is unchanged.
C6_AddHeaderAfter ==
    (last.op = "add_header_after" /\ ~last.ret_none /\ ~last.raised) =>
        LET p == last.pkt
            m == MapBefore
            k == KeyIndex(m, last.anchor)
            L == last.ret_len
            pre == PrefixBytes(m, k, PacketBefore.original_packet)
        IN  /\ SerializeBefore.ok /\ serialize(p).ok
            /\ Len(serialize(p).bytes) = Len(SerializeBefore.bytes) + L
            /\ serialize(p).bytes =
                   pre \o Zeros(L)
                       \o SubSeq(SerializeBefore.bytes, Len(pre) + 1,
                                 Len(SerializeBefore.bytes))
            /\ HeaderNamesOf(HeaderMap(p)) =
                   SubSeq(HeaderNamesOf(m), 1, k) \o <<last.name>>
                       \o SubSeq(HeaderNamesOf(m), k + 1, Len(m))
            /\ packets[p].payload_offset = PacketBefore.payload_offset
            /\ packets[p].payload_length = PacketBefore.payload_length

\* a header of 2 bytes has been added after the first of two parsed headers
C6_Witness ==
    /\ last.op = "add_header_after" /\ ~last.ret_none /\ ~last.raised
    /\ last.ret_len = 2
    /\ LET m == HeaderMap(last.pkt)
       IN  /\ Len(m) = 3
           /\ m[1].name = last.anchor
           /\ m[2].name = last.name
           /\ m[2].byte_buffer = "empty_byte_array"
           /\ m[3].offset > 0

\* the first bit of field i of a header
RECURSIVE FieldStart(_, _)
FieldStart(h, i) ==
    IF i <= 1 THEN 0 ELSE FieldStart(h, i - 1) + h.fields[i - 1].width

\* C7: set_field of a value that fits a field of a header in the header map
\* changes only that field: every other field keeps its value, the serialized
\* length is unchanged, and serialize() changes only in the bytes that hold
\* the field.
C7_SetFieldFrame ==
    (/\ last.op = "set_field" /\ ~last.ret_none
     /\ HasKey(MapBefore, last.name)
     /\ Len(last.ret_val) <= HeaderDescs[last.name][
            FieldIndex(MapBefore[KeyIndex(MapBefore, last.name)],
                       last.field)].width) =>
        LET p == last.pkt
            ref == <<last.name, last.field>>
            m == MapBefore
            k == KeyIndex(m, ref[1])
            i == FieldIndex(m[k], ref[2])
            start == SumLengths(SubSeq(m, 1, k - 1))
            first == start + FieldStart(m[k], i) \div 8
            final == start + (FieldStart(m[k], i)
                               + m[k].fields[i].width - 1) \div 8
            was == SerializeBefore.bytes
        IN  /\ \A other \in FieldRefs \ {ref} :
                   get_field(p, other) = GetFieldOf(PacketBefore, m, other)
            /\ get_field(p, ref).value = last.ret_val
            /\ serialize(p).ok
            /\ Len(serialize(p).bytes) = Len(was)
            /\ \A n \in 1..Len(was) :
                   serialize(p).bytes[n] # was[n] => (n - 1) \in first..final

\* C8: header_length is the sum of the lengths of the headers in header_map.
C8_HeaderLength ==
    \A p \in PacketIds : packets[p].header_length = SumLengths(HeaderMap(p))

\* C9: a call on one packet leaves every other packet (its replica or its
\* source in particular) as it was: header map, fields, header_length,
\* payload window and serialize().
C9_ReplicaIndependent ==
    last.op \in {"parse_header", "set_field", "add_header_before",
                 "add_header_after", "remove_header"} =>
        \A q \in 1..Len(before.packets) :
            q # last.pkt =>
                /\ HeaderMap(q) = before.maps[before.packets[q].header_map]
                /\ packets[q] = before.packets[q]
                /\ serialize(q) =
                       SerializeOf(before.packets[q],
                                   before.maps[before.packets[q].header_map])

\* C10: replicate() gives the replica an id greater than every id assigned
\* before, leaves the source's id unchanged, and sets the replica's parent_id
\* to the source's id.
C10_ReplicaFreshId ==
    last.op = "replicate" =>
        /\ packets[last.ret_obj].id >= before.id_next
        /\ packets[last.pkt].id = PacketBefore.id
        /\ packets[last.ret_obj].parent_id = PacketBefore.id

-----------------------------------------------------------------------------
(* Table: the claim *)

\* C5: when an entry of the table matches the packet, process_packet
\* completes, returns hit = True, and has added 1 to packet_count and the
\* length of the packet's serialize(), as it was at the match, to byte_count.
C5_HitCounts ==
    (last.op = "process_packet" /\ FirstMatch(PacketBefore, MapBefore) # 0) =>
        /\ ~last.raised
        /\ last.ret_hit
        /\ packet_count = before.packet_count + 1
        /\ byte_count = before.byte_count + Len(SerializeBefore.bytes)

-----------------------------------------------------------------------------
(* SimpleQueueManager: the claims *)

Count(seq, packet) == Cardinality({i \in 1..Len(seq) : seq[i] = packet})
PacketsOf(seq) == [i \in 1..Len(seq) |-> seq[i].packet]

\* how many times a packet is in the queues
InQueues(packet) ==
    LET slots == {<<port, q>> : port \in 1..port_count,
                                q \in 1..(2 * q_per_port)}
        where == {sl \in slots : Count(queues[sl[1]][sl[2]], packet) > 0}
    IN  IF where = {} THEN 0
        ELSE IF Cardinality(where) > 1 THEN 2
        ELSE LET sl == CHOOSE sl \in where : TRUE
             IN  Count(queues[sl[1]][sl[2]], packet)

\* the run() thread has popped the packet and not handed it on yet
InHand(packet) ==
    IF worker.pc \in {"leave", "hand"} /\ worker.packet = packet THEN 1 ELSE 0

\* C1: no packet is lost or duplicated: a packet is handed to next_processor
\* at most once, and a packet that was appended is in a queue, or with the
\* run() thread on its way to next_processor, or has been handed on, and is in
\* exactly one of these places.
C1_NoLossNoDup ==
    \A packet \in TMPackets :
        /\ Count(PacketsOf(handed), packet) <= 1
        /\ InQueues(packet) + InHand(packet) + Count(PacketsOf(handed), packet)
               = Count(PacketsOf(enqueued), packet)

\* both callers have appended, one of them is inside cond_var while the run()
\* thread holds a popped packet, and a packet has been handed on already
C1_Witness ==
    /\ \A t \in Producers :
           \E i \in 1..Len(enqueued) :
               enqueued[i].packet \in
                   {PacketOf(t, k) : k \in 1..PacketsPerProducer}
    /\ \E t \in Producers : producer[t].pc = "set" /\ cond_var = t
    /\ worker.pc = "hand"
    /\ Len(handed) >= 1
    /\ Len(enqueued) >= 3

\* the packets of a log that went through queue q of a port
Through(log, port, q) ==
    SelectSeq(log, LAMBDA e : e.port = port /\ e.queue = q)
HandedFrom(port, q) ==
    SelectSeq(handed, LAMBDA e : e.port = port /\ e.queue = q)

\* C2: the packets handed on from one (port, queue) are the first of the
\* packets appended to it, in the order of their appends.
C2_FifoPerQueue ==
    \A port \in 0..(port_count - 1), q \in 0..(2 * q_per_port - 1) :
        LET out == PacketsOf(HandedFrom(port, q))
            inn == PacketsOf(Through(enqueued, port, q))
        IN  /\ Len(out) <= Len(inn)
            /\ out = SubSeq(inn, 1, Len(out))

\* all four packets have been handed on, three of them, of both callers,
\* through one served queue and in the order of their appends
C2_Witness ==
    \E port \in 0..(port_count - 1), q \in 0..(q_per_port - 1) :
        LET out == PacketsOf(HandedFrom(port, q))
        IN  /\ Len(out) = 3
            /\ \E i, j \in 1..3 :
                   /\ out[i] \in {PacketOf(1, k) : k \in 1..PacketsPerProducer}
                   /\ out[j] \in {PacketOf(2, k) : k \in 1..PacketsPerProducer}
            /\ out = PacketsOf(Through(enqueued, port, q))
            /\ Len(handed) = 4

\* C11: packet ids are unique: once every constructor and every replicate
\* call has returned, no two ParsedPacket objects carry the same id, also when
\* several threads construct and replicate at the same time.
C11_UniqueIds ==
    (\A t \in Threads : thread[t].pc = "idle") =>
        \A p \in PacketIds, q \in PacketIds :
            p # q => packets[p].id # packets[q].id

\* the number of appends process() made for a packet
Appends(packet) ==
    Cardinality({i \in 1..Len(enqueued) : enqueued[i].packet = packet})

\* process() has returned for the packet of a record of offered
ProcessReturned(o) ==
    \E t \in Producers, k \in 1..PacketsPerProducer :
        /\ o.packet = PacketOf(t, k)
        /\ k < producer[t].sent \/ (k = producer[t].sent /\ producer[t].pc = "idle")

\* C12: once process() has returned for a packet whose egress specification
\* has bit 28 set and whose low 16 bits are a key of the multicast map with k
\* destinations, k appends were made for it, one per destination, the
\* packet itself at the last destination.
C12_MulticastFanOut ==
    \A n \in 1..Len(offered) :
        LET o == offered[n]
            k == Len(o.dest)
        IN  (/\ ProcessReturned(o)
             /\ ~o.egr_spec.none
             /\ (o.egr_spec.hi \div 4096) % 2 = 1
             /\ ~(o.egr_spec.hi = 65535 /\ o.egr_spec.lo = 65535)
             /\ k > 0)
            => /\ Appends(o.packet) = k
               /\ \E i \in 1..Len(enqueued) :
                     /\ enqueued[i].packet = o.packet
                     /\ enqueued[i].port = o.dest[k][1]
                     /\ enqueued[i].queue = o.dest[k][2]

\* C13: a packet whose egress specification is absent, was never set by an
\* action, or is 0xffffffff is never appended to a queue and never handed to
\* next_processor.
C13_DropUnset ==
    \A n \in 1..Len(offered) :
        LET o == offered[n]
        IN  (\/ o.egr_spec.none
             \/ ~o.set
             \/ (o.egr_spec.hi = 65535 /\ o.egr_spec.lo = 65535))
            => /\ Appends(o.packet) = 0
               /\ \A i \in 1..Len(handed) : handed[i].packet # o.packet

\* C14: for an egress specification other than 0xffffffff with bit 28 clear,
\* map_egress_spec returns one destination: port the low 16 bits, queue the
\* next 15 bits.
C14_UnicastDecode ==
    (/\ mapped.called
     /\ ~(mapped.egress_spec.hi = 65535 /\ mapped.egress_spec.lo = 65535)
     /\ (mapped.egress_spec.hi \div 4096) % 2 = 0)
    => /\ ~mapped.raised
       /\ mapped.dest = <<<<mapped.egress_spec.lo,
                           mapped.egress_spec.hi % 32768>>>>

-----------------------------------------------------------------------------
(* Table entries and Table: matching, priority, default *)

\* the header or metadata header a reference names is in the packet and has
\* the field (headers are looked up before metadata)
HeaderOf(pkt, m, ref) ==
    IF HasKey(m, ref[1]) THEN m[KeyIndex(m, ref[1])]
    ELSE pkt.metadata[KeyIndex(pkt.metadata, ref[1])]
FieldPresent(pkt, m, ref) ==
    /\ HasKey(m, ref[1]) \/ HasKey(pkt.metadata, ref[1])
    /\ FieldIndex(HeaderOf(pkt, m, ref), ref[2]) # 0
FieldValue(pkt, m, ref) ==
    LET h == HeaderOf(pkt, m, ref) IN h.fields[FieldIndex(h, ref[2])].value

\* every key of the entry names a field of the packet, equal to the stored
\* value: under the mask if the key has one and the entry is ternary
MatchesAsSpecified(entry, pkt, m) ==
    \A i \in 1..Len(entry.match_values) :
        LET field == entry.match_values[i]
        IN  /\ FieldPresent(pkt, m, field.ref)
            /\ IF field.masked
               THEN IntAnd(FieldValue(pkt, m, field.ref), field.mask)
                        = IntAnd(field.value, field.mask)
               ELSE FieldValue(pkt, m, field.ref) = field.value

\* C15: a ternary entry matches a packet iff for every key the packet field
\* is present and equals the stored value, under the mask when the key has
\* one.
C15_TernaryMatch ==
    (last.op = "check_match" /\ last.entry.kind = "ternary") =>
        (last.ret_hit <=>
            MatchesAsSpecified(last.entry, packets[last.pkt], HeaderMap(last.pkt)))

\* C16: an exact entry matches a packet iff every key names a field present
\* in the packet whose value equals the stored value; a missing header or a
\* missing field fails the match whatever the stored value.
C16_ExactMatch ==
    (last.op = "check_match" /\ last.entry.kind = "exact") =>
        (last.ret_hit <=>
            MatchesAsSpecified(last.entry, packets[last.pkt], HeaderMap(last.pkt)))

\* C17: when entries of the table match the packet, the entry process_packet
\* takes is a matching entry of the highest priority among them, whatever the
\* order in which the entries were added.
C17_HighestPriority ==
    (last.op = "process_packet" /\ FirstMatch(PacketBefore, MapBefore) # 0) =>
        /\ check_match(last.entry, PacketBefore, MapBefore)
        /\ \A i \in 1..Len(entries) :
              check_match(entries[i], PacketBefore, MapBefore)
                  => entries[i].priority <= last.entry.priority

\* the packet after modify_field(intrinsic_metadata.egress_specification, v)
WithEgress(pkt, v) ==
    LET k == KeyIndex(pkt.metadata, "intrinsic_metadata")
        f == FieldIndex(pkt.metadata[k], "egress_specification")
    IN  [pkt EXCEPT !.metadata[k].fields[f].value = v,
                    !.metadata[k].modified = TRUE]

-----------------------------------------------------------------------------
(* ParsedPacket: errors of the mutators and of the field accessors *)

\* the call was given a header that is already in the packet, an anchor that
\* is not, or a header to remove that is not
ModificationError ==
    \/ /\ last.op \in {"add_header_before", "add_header_after"}
       /\ ~HasKey(MapBefore, last.anchor) \/ HasKey(MapBefore, last.name)
    \/ /\ last.op = "remove_header"
       /\ ~HasKey(MapBefore, last.name)

\* C19: add_header_before, add_header_after and remove_header report a
\* packet-modification error by returning None: they do not raise, and
\* they leave the header map, header_length and the payload window as they
\* were.
C19_ModErrorIsNone ==
    ModificationError =>
        /\ ~last.raised
        /\ last.ret_none
        /\ packets = before.packets
        /\ maps = before.maps

\* C20: get_field and set_field never raise; for a reference that does not
\* split into header and field, or whose header is neither a parsed header
\* nor a metadata header, they return None and leave the packet unchanged.
C20_FieldRefNeverRaises ==
    last.op \in {"get_field", "set_field"} =>
        /\ ~last.raised
        /\ (\/ Len(last.ref) # 2
            \/ /\ ~HasKey(MapBefore, last.ref[1])
               /\ ~HasKey(PacketBefore.metadata, last.ref[1]))
           => /\ last.ret_none
              /\ packets = before.packets
              /\ maps = before.maps

-----------------------------------------------------------------------------
(* parser.py: Parser.process *)

\* a value Python takes as true: not None and not 0
Truthy(call) == ~call.ret_none /\ call.ret_val # <<>>

\* C21: get_field called with a bare header name returns a truthy value when
\* the parser has extracted that header into the packet, and a falsy value
\* when the name is not a parsed header.
C21_HeaderValid ==
    (last.op = "get_field" /\ ~last.raised /\ Len(last.ref) = 1) =>
        (Truthy(last) <=> HasKey(HeaderMap(last.pkt), last.ref[1]))

\* the states the parse graph prescribes for a packet: the start state, then
\* the state of the edge whose value is the ethertype, if there is one
ethertype_of(packet) == packet[1] * 256 + packet[2]
PrescribedStates(packet) ==
    <<first_state_name>> \o
        (IF ethertype_of(packet) = 33024 THEN <<"parse_vlan">>
         ELSE IF ethertype_of(packet) = 65298 THEN <<"parse_flags">>
         ELSE <<>>)

RECURSIVE ExtractsOf(_)
ExtractsOf(states) ==
    IF states = <<>> THEN <<>>
    ELSE parser_states[states[1]].extracts \o ExtractsOf(Tail(states))

\* C22: when Parser.process returns, it has visited the states from
\* start_state along next_state up to None, the header map of the packet
\* holds in order exactly the headers those states extract, header_length
\* and payload_offset are the sum of their lengths (ethertype then vlan, on
\* ethertype 0x8100, gives 4), and next_processor got the packet once.
C22_ParserProcess ==
    (last.op = "process" /\ ~last.raised) =>
        LET pkt == packets[last.pkt]
            m == HeaderMap(last.pkt)
        IN  /\ last.visited = PrescribedStates(pkt.original_packet)
            /\ HeaderNamesOf(m) = ExtractsOf(last.visited)
            /\ pkt.header_length = SumLengths(m)
            /\ pkt.payload_offset = SumLengths(m)
            /\ (ethertype_of(pkt.original_packet) = 33024 =>
                    /\ HeaderNamesOf(m) = <<"ethertype", "vlan">>
                    /\ pkt.header_length = 4)
            /\ last.handed_on = 1

\* a packet with ethertype 0x8100 has gone through parse_ethertype and
\* parse_vlan and was handed on
C22_Witness ==
    /\ last.op = "process" /\ ~last.raised
    /\ last.visited = <<"parse_ethertype", "parse_vlan">>
    /\ packets[last.pkt].header_length = 4
    /\ last.handed_on = 1

-----------------------------------------------------------------------------
(* table.py: lookups and updates in several threads *)

LookupStatements == {"scan", "count", "default", "eval"}
UpdateStatements ==
    {"append", "store_default", "clear_stats", "clear_entries",
     "clear_default"}

\* thread t is inside the body of a with self.cond_var of the table
InTable(t) == thread[t].pc \in LookupStatements \cup UpdateStatements

\* C23: the scan, the counter update and the action evaluation of
\* process_packet never interleave with add_entry, clear or
\* set_default_entry of another thread: while a thread is inside a lookup no
\* other thread is inside a table method, and the entry list and the default
\* entry are the ones the lookup started from; a thread is inside a body
\* exactly when it owns cond_var.
C23_LookupAtomic ==
    /\ \A t \in Threads : InTable(t) <=> table_cond_var = t
    /\ \A t \in Threads :
          thread[t].pc \in LookupStatements =>
              /\ \A u \in Threads \ {t} : ~InTable(u)
              /\ entries = thread[t].seen.entries
              /\ default_entry = thread[t].seen.default_entry

\* a lookup has scanned past the first entry while another thread waits at
\* the with statement of an update
C23_Witness ==
    \E t \in Threads, u \in Threads :
        /\ thread[t].pc = "scan" /\ thread[t].idx = 2
        /\ thread[u].pc = "with" /\ thread[u].op # "process_packet"

-----------------------------------------------------------------------------
(* simple_queue.py: the thread of run() *)

\* C24: after kill() on a running traffic manager, whatever the thread of
\* run() is doing (waiting for the event, scanning, about to clear the
\* event), it eventually leaves the loop of run() and terminates.
C24_KillTerminates == (~running) ~> (worker.pc = "exited")

\* kill() has been called and the thread of run() has left its loop
C24_Witness == ~running /\ worker.pc = "exited" /\ Len(handed) > 0

\* the packet is in one of the queues
Queued(packet) ==
    \E port \in 1..port_count, q \in 1..(2 * q_per_port) :
        \E i \in 1..Len(queues[port][q]) : queues[port][q][i] = packet

\* the packet has been handed to next_processor
Handed(packet) == \E i \in 1..Len(handed) : handed[i].packet = packet

\* C25: no lost wake-up: a packet that is in a queue of a running traffic
\* manager is eventually popped and handed to next_processor (or the manager
\* is killed), whether or not another packet is enqueued afterwards.
C25_NoLostWakeup ==
    \A packet \in TMPackets :
        (Queued(packet) /\ running) ~> (Handed(packet) \/ ~running)

\* the thread of run() selects and pops a packet in this step
Selects ==
    worker.pc = "scan" /\ worker'.pc = "leave" /\ worker'.packet # 0

\* C26: strict priority within a port: whenever the thread of run() pops a
\* packet from queue q of port p, every queue of port p with a higher index
\* is empty at the moment of the selection.
C26_StrictPriority ==
    [][Selects =>
          \A q \in (worker'.queue + 1)..(Len(queues[worker'.port + 1]) - 1) :
              queues[worker'.port + 1][q + 1] = <<>>]_vars

\* the port that comes k places after the last port serviced
PortAfter(k) == (worker.last_port + 1 + k) % port_count

\* some queue of the port holds a packet
HasPacket(port) ==
    \E q \in 1..Len(queues[port + 1]) : queues[port + 1][q] # <<>>

\* C27: round-robin across ports: each dequeue takes its packet from the
\* first port, in cyclic order from the port after the last port serviced,
\* that has a non-empty queue. The port serviced becomes the last port, so a
\* port with a non-empty queue then waits for at most port_count dequeues.
C27_RoundRobin ==
    [][Selects =>
          \E k \in 0..(port_count - 1) :
              /\ worker'.port = PortAfter(k)
              /\ HasPacket(PortAfter(k))
              /\ \A j \in 0..(k - 1) : ~HasPacket(PortAfter(j))]_vars

\* C28: every packet handed to next_processor carries an egress port equal
\* to the port of the queue it was popped from, and the egress port is
\* written while the thread of run() still owns cond_var: it is there as
\* soon as the packet is popped, before the with statement ends.
C28_EgressPortStamped ==
    /\ \A i \in 1..Len(handed) : handed[i].egress_port = handed[i].port
    /\ (worker.pc = "leave" /\ worker.packet # 0) =>
           cond_var = Worker /\ worker.egress_port = worker.port
    /\ worker.pc = "hand" => worker.egress_port = worker.port

\* a packet of port 1 has been handed on and the thread of run() has popped
\* another one and is still inside the with statement
C28_Witness ==
    /\ \E i \in 1..Len(handed) :
           handed[i].port = 1 /\ handed[i].egress_port = 1
    /\ worker.pc = "leave" /\ worker.packet # 0 /\ cond_var = Worker

-----------------------------------------------------------------------------
(* simple_queue.py, pipeline.py, table.py: the two kinds of mutex *)

\* the threads that take the cond_var of the manager or of a table
LockingThreads == Producers \cup {Worker}

\* C29: the mutex of the traffic manager is owned only by a caller of
\* process() that appends to a queue and by the thread of run() while it
\* selects and pops; the thread of run() does not own it while
\* next_processor.process runs, and no thread owns the mutex of the manager
\* and the mutex of a table at the same time.
C29_MutexScope ==
    /\ \A t \in Producers : cond_var = t => producer[t].pc = "set"
    /\ cond_var = Worker => worker.pc = "leave"
    /\ worker.pc \in {"hand", "hand_table"} => cond_var # Worker
    /\ \A t \in LockingThreads : ~(cond_var = t /\ table_cond_var = t)

\* the thread of run() is inside the table of the next pipeline while a
\* caller of process() is inside the mutex of the manager
C29_Witness ==
    /\ worker.pc = "hand_table" /\ table_cond_var = Worker
    /\ cond_var = 1 /\ producer[1].pc = "set"

-----------------------------------------------------------------------------
(* pipeline.py: Pipeline.process *)

\* C30: when the lookup of the current table returns hit = False, the next
\* table is the destination of the "always" edge if there is one, else of
\* the "miss" edge if there is one, else of the edge labelled with the
\* returned action (the action of the default entry) if there is one, else
\* exit_control_flow.
C30_NextOnMiss ==
    (last.op = "pipeline" /\ ~last.ret_hit) =>
        LET tr == last.edges
            action == IF default_entry # NoEntry
                      THEN default_entry.action_ref ELSE ""
        IN  /\ ~last.raised
            /\ last.field = action
            /\ last.name =
                   IF HasEdge(tr, "always") THEN EdgeTo(tr, "always")
                   ELSE IF HasEdge(tr, "miss") THEN EdgeTo(tr, "miss")
                   ELSE IF action # "" /\ HasEdge(tr, action)
                   THEN EdgeTo(tr, action)
                   ELSE "exit_control_flow"

\* a miss in a table with a miss edge and an edge of the default action,
\* which the lookup returned: the miss edge was taken
C30_Witness ==
    /\ last.op = "pipeline" /\ ~last.ret_hit /\ ~last.raised
    /\ last.field = "set_egress"
    /\ HasEdge(last.edges, "miss") /\ HasEdge(last.edges, "set_egress")
    /\ last.name = "t2"

\* C31: when the lookup of the current table returns hit = True, the round
\* ends without error and the next table is the destination of the "always"
\* edge if there is one, else of the edge labelled with the returned action
\* name, else of the "hit" edge, else of the "default" edge, else
\* exit_control_flow.
C31_NextOnHit ==
    (last.op = "pipeline" /\ last.ret_hit) =>
        LET tr == last.edges
        IN  /\ ~last.raised
            /\ last.name =
                   IF HasEdge(tr, "always") THEN EdgeTo(tr, "always")
                   ELSE IF HasEdge(tr, last.field) THEN EdgeTo(tr, last.field)
                   ELSE IF HasEdge(tr, "hit") THEN EdgeTo(tr, "hit")
                   ELSE IF HasEdge(tr, "default") THEN EdgeTo(tr, "default")
                   ELSE "exit_control_flow"

\* a packet that a thread is taking through Pipeline.process
InPipeline(p) == \E t \in Threads : thread[t].pc = "pipeline" /\ thread[t].obj = p

\* C32: whatever the accepted control-flow graph, a packet that is inside
\* Pipeline.process eventually leaves the while loop at exit_control_flow
\* and is handed to next_processor once.
C32_PipelineTerminates ==
    \A p \in 1..MaxPackets :
        InPipeline(p) ~>
            (/\ last.op = "process" /\ last.anchor = "exit_control_flow"
             /\ last.pkt = p /\ last.handed_on = 1)

\* the tables that are the source of an edge and the destination of none
FirstTables(edge_list) ==
    {edge_list[i].src : i \in 1..Len(edge_list)} \
        {edge_list[i].dst : i \in 1..Len(edge_list)}

\* C33: construction sets first_table_name to the one table that is the
\* source of an edge and the destination of none, whether or not the edges
\* have an action attribute, and fails when there is not exactly one such
\* table.
C33_FirstTable ==
    last.op = "Pipeline" =>
        IF Cardinality(FirstTables(last.graph)) = 1
        THEN ~last.raised /\ last.name \in FirstTables(last.graph)
        ELSE last.raised

\* the index of a specific-value edge for the select value of the last call
SpecificMatches(tr) ==
    {i \in 1..Len(tr.value_map) :
        tr.value_map[i][1] = NatOf(last.select_value.value)}

\* C34: next_state returns the default next state when select_value is
\* None, and the next state of the specific-value edge when select_value
\* equals a specific value, whatever value sets the state also has.
C34_SpecificFirst ==
    last.op = "next_state" =>
        LET tr == ParserStateTransition(last.graph)
        IN  /\ last.select_value.none =>
                   ~last.raised /\ last.name = tr.default
            /\ (~last.select_value.none /\ SpecificMatches(tr) # {}) =>
                   /\ ~last.raised
                   /\ \E i \in SpecificMatches(tr) :
                          last.name = tr.value_map[i][2]

\* a select value that has a specific-value edge to parse_vlan and is also
\* in the value set of an in_value_set edge to parse_flags: parse_vlan is
\* returned
C34_Witness ==
    /\ last.op = "next_state" /\ ~last.raised /\ ~last.select_value.none
    /\ NatOf(last.select_value.value) = 33024
    /\ last.name = "parse_vlan"
    /\ LET tr == ParserStateTransition(last.graph)
       IN  /\ tr.in_value_sets = <<<<"vs1", "parse_flags">>>>
           /\ tr.value_map = <<<<33024, "parse_vlan">>>>

\* the next states of the value-set edges that accept the select value of
\* the last call
InSetStates(tr) ==
    {tr.in_value_sets[i][2] : i \in
        {j \in 1..Len(tr.in_value_sets) :
            NatOf(last.select_value.value)
                \in all_value_sets[tr.in_value_sets[j][1]]}}
NotInSetStates(tr) ==
    {tr.not_in_value_sets[i][2] : i \in
        {j \in 1..Len(tr.not_in_value_sets) :
            NatOf(last.select_value.value)
                \notin all_value_sets[tr.not_in_value_sets[j][1]]}}

\* C35: for a select value that is not None and equals no specific value,
\* next_state returns the next state of an in_value_set edge whose set holds
\* the value if there is one, else the next state of a not_in_value_set edge
\* whose set does not hold it if there is one, else the default.
C35_ValueSets ==
    (/\ last.op = "next_state" /\ ~last.select_value.none
     /\ SpecificMatches(ParserStateTransition(last.graph)) = {}) =>
        LET tr == ParserStateTransition(last.graph)
        IN  /\ ~last.raised
            /\ IF InSetStates(tr) # {} THEN last.name \in InSetStates(tr)
               ELSE IF NotInSetStates(tr) # {}
               THEN last.name \in NotInSetStates(tr)
               ELSE last.name = tr.default

(* action.py *)

\* the value of a field of the packet of the last call, before and after it
FieldBefore(ref) == GetFieldOf(PacketBefore, MapBefore, ref).value
FieldAfter(ref) == GetFieldOf(packets[last.pkt], HeaderMap(last.pkt), ref).value

\* C36: every primitive of an action reads its field operands from the
\* packet as it was before the action: modify_field(a, b); modify_field(b, a)
\* swaps a and b, and add_to_field(a, 1) after modify_field(a, b) leaves a
\* at its value before the action plus 1.
C36_ParallelSemantics ==
    (last.op = "eval" /\ ~last.raised) =>
        /\ last.name = "swap" =>
               /\ FieldAfter(EgressRef) = FieldBefore(EgressPortRef)
               /\ FieldAfter(EgressPortRef) = FieldBefore(EgressRef)
        /\ last.name = "set_and_add" =>
               FieldAfter(EgressRef) = Add(FieldBefore(EgressRef), IntOf(1))

\* C37: an action with add_header(vlan) on a packet without the vlan header
\* leaves vlan in the header map; an action with remove_header(vlan) on a
\* packet with the vlan header leaves vlan out of the header map and
\* header_length smaller by the length of the header.
C37_HeaderActions ==
    last.op = "eval" =>
        /\ (last.name = "push_vlan" /\ ~HasKey(MapBefore, "vlan")) =>
               ~last.raised /\ HasKey(HeaderMap(last.pkt), "vlan")
        /\ (last.name = "pop_vlan" /\ HasKey(MapBefore, "vlan")) =>
               /\ ~last.raised
               /\ ~HasKey(HeaderMap(last.pkt), "vlan")
               /\ packets[last.pkt].header_length =
                      PacketBefore.header_length
                          - MapBefore[KeyIndex(MapBefore, "vlan")].length

(* field.py: extract at a header offset *)

\* the unsigned integer that the w bits of the bytes from bit position start
\* form, most significant bit first
RECURSIVE BigEndian(_, _, _)
BigEndian(bytes, start, w) ==
    IF w = 0 THEN 0
    ELSE 2 * BigEndian(bytes, start, w - 1)
         + ((bytes[((start + w - 1) \div 8) + 1]
                 \div Pow2(7 - ((start + w - 1) % 8))) % 2)

\* C38: a field of a header parsed at byte offset header_offset of the
\* packet holds the big-endian unsigned integer formed by its w bits, which
\* start at bit 8 * header_offset + b of the buffer, b being the field's bit
\* offset in the header: the same value as at offset 0 of the same bytes.
C38_ExtractAtOffset ==
    \A p \in PacketIds :
        \A i \in 1..Len(HeaderMap(p)) :
            LET h == HeaderMap(p)[i]
            IN  (h.byte_buffer = "original_packet" /\ ~h.modified) =>
                    \A j \in 1..Len(h.fields) :
                        h.fields[j].value =
                            IntOf(BigEndian(packets[p].original_packet,
                                            8 * h.offset + FieldStart(h, j),
                                            h.fields[j].width))

\* bit k of a byte list, counted from the most significant bit of byte 1
BitAt(bytes, k) == (bytes[(k \div 8) + 1] \div Pow2(7 - (k % 8))) % 2

\* the w bits of a byte list that start at bit start, as an integer
FieldBits(bytes, start, w) == Trim([i \in 1..w |-> BitAt(bytes, start + w - i)])

\* C39: update_header_bytes of a w-bit field at bit offset b leaves every bit
\* of the byte list outside [b, b+w) as it was (the scratch is filled with one
\* byte, so all those bits still agree with that fill), whatever integer the
\* field holds, and the bits inside are the value modulo 2^w.
C39_OutsideUnchanged ==
    codec_pc \in {"updated", "extracted"} =>
        /\ \E fill \in {0, 1} :
               \A k \in 0..(8 * ScratchLen - 1) :
                   (k < offset \/ k >= offset + width) =>
                       BitAt(byte_list, k) = fill
        /\ FieldBits(byte_list, offset, width) = MaskTo(value, width)

\* the (port, queue) pairs the scan of run() looks at (lines 130-135)
Scanned ==
    {<<port, queue>> : port \in 0..(port_count - 1),
                       queue \in 0..(q_per_port - 1)}

\* C40: the queue structure built by __init__ has exactly port_count ports
\* with exactly q_per_port queues each, so every (port, queue) to which
\* process() has appended a packet is one the scan of run() visits.
C40_QueueStructure ==
    /\ Len(queues) = port_count
    /\ \A port \in 1..Len(queues) : Len(queues[port]) = q_per_port
    /\ \A i \in 1..Len(enqueued) :
           <<enqueued[i].port, enqueued[i].queue>> \in Scanned
====
